---- MODULE Spec2Model ----
(***************************************************************************)
(* Verification model of the XVI-CatPhan analysis package                  *)
(* (src/xvicatphan/catphan_analysis).                                      *)
(*                                                                         *)
(* The package is modelled component by component.  Each component has its *)
(* own group of variables and its own specification; a specification       *)
(* leaves the variables of the other components at their idle values.      *)
(*                                                                         *)
(*   SpecLocate   CatPhanGeometry.find_slice_ctp528,                       *)
(*                CatPhanGeometry.select_optimal_ctp528_slices,            *)
(*                SliceLocator.locate_all_modules,                         *)
(*                CatPhanAnalyzer.locate_modules                           *)
(*   SpecCenter   CatPhanGeometry.find_center                              *)
(*   SpecRotation CatPhanGeometry.find_rotation                            *)
(*   SpecScaling  CTP404Module.calculate_spatial_scaling                   *)
(*   SpecAnalyze  CatPhanAnalyzer: the public methods and analyze()        *)
(*   SpecMtf      CTP528Module._calculate_mtf                              *)
(*   SpecUniformity CTP486Module.prepare_image, analyze_uniformity         *)
(*   SpecModules  CTP404Module, CTP486Module, CTP528Module on one stack    *)
(*   SpecListener DICOMListener and listen_and_analyze.main;               *)
(*                SpecListenerLive adds the fairness of the polling loop   *)
(*                SpecListenerEnv also lets files leave the directory      *)
(*   SpecAirRoi   find_air_roi_centers, nested in find_rotation            *)
(*   SpecResolution CTP528Module.analyze: normalisation, interpolation     *)
(*                                                                         *)
(* Numbers with a fractional part are kept exact: a pixel coordinate is    *)
(* stored doubled, a mean as the pair (sum, count), a slice thickness in   *)
(* half millimetres.                                                       *)
(***************************************************************************)
EXTENDS Integers, Sequences, FiniteSets, TLC

\* ------------------------------------------------------------------------
\* Bounds of the model
\* ------------------------------------------------------------------------

\* longest slice stack explored
MaxLen == 6
\* largest expected_slice passed to a direct find_slice_ctp528 call
MaxExpected == 7
\* profile means of the five CTP528 candidates range over 0..MaxMean
MaxMean == 1
\* slice thickness ranges over 1..MaxThick2 half millimetres
MaxThick2 == 6
\* images given to find_center have 44..MaxImg rows and columns
MaxImg == 44
\* disc radii range over 20..MaxRadius pixels
MaxRadius == 20
\* find_rotation works on square images of RotImg pixels
RotImg == 256
\* derivative profiles given to calculate_spatial_scaling have MaxDf samples
MaxDf == 5
\* the resolution analysis is followed through the first MaxSectors sectors
MaxSectors == 2
\* a synthetic line-pair profile holds up to MaxBars bars
MaxBars == 3
\* pixel values of the uniformity images range over -MaxHU..MaxHU
MaxHU == 1000
\* the module centre lies within MaxShift half pixels of the image centre
MaxShift == 1
\* public methods of one module object are called up to MaxCalls times
MaxCalls == 2
\* the module objects work on a stack of MaxStack slices
MaxStack == 4
\* files that reach the listener's directory in one run
MaxFiles == 2
\* wait_cycles ranges over 1..MaxWait
MaxWait == 3
\* sectors in the vector of modulations handed to the normalisation
MaxPairs == 4
\* a sector's modulation is one of 0 .. MaxMod
MaxMod == 3

\* ------------------------------------------------------------------------
\* Generic helpers
\* ------------------------------------------------------------------------

Min(S) == CHOOSE x \in S : \A y \in S : x <= y

Max(S) == CHOOSE x \in S : \A y \in S : x >= y

Abs(x) == IF x < 0 THEN -x ELSE x

Range(s) == { s[k] : k \in 1..Len(s) }

\* Python's int() of the rational a/b, b > 0: truncation towards zero.
TruncDiv(a, b) == IF a >= 0 THEN a \div b ELSE -((-a) \div b)

\* Python list / numpy indexing of a container of length len with index i:
\* a negative index counts from the end, anything else out of range raises
\* IndexError (modelled as -1).
PyIndex(i, len) ==
    IF 0 <= i /\ i < len THEN i
    ELSE IF i < 0 /\ -len <= i THEN len + i
    ELSE -1

\* ------------------------------------------------------------------------
\* Program constants
\* ------------------------------------------------------------------------

\* default of find_slice_ctp528's expected_slice parameter
ExpectedSliceDefault == 60
\* mm from CTP528 to CTP404, as hard-coded in locate_all_modules
d_CTP404 == 30
\* mm from CTP528 to CTP486, as hard-coded in locate_all_modules
d_CTP486 == -80

Models == {"500", "504"}

\* ------------------------------------------------------------------------
\* CatPhanGeometry.find_slice_ctp528
\* ------------------------------------------------------------------------

\* Outcome of the set-up before the search loops:
\*   "ok"      find_center succeeds on slice z_tmp and the sample points lie
\*             inside the image grid
\*   "no_edge" find_center raises on slice z_tmp (no pixel above 400 or 300)
\*   "oob"     a line-pair sample point lies outside the grid, so interpn
\*             raises ValueError in get_lp_profile
Probes == {"ok", "no_edge", "oob"}

\* z_tmp = min(expected_slice, len(dicom_set) - 1)
ZTmp(expected, len) == IF expected < len - 1 THEN expected ELSE len - 1

\* search_order = [z_tmp, z_tmp+1, z_tmp-1, z_tmp+2, z_tmp-2]
SearchOrder(z) == <<z, z + 1, z - 1, z + 2, z - 2>>

\* the loop's guard "if i < 0 or i >= len(dicom_set) - 1: continue", negated
CandidateExamined(i, len) == ~(i < 0 \/ i >= len - 1)

\* the candidates the first loop does not skip, in search order
RECURSIVE ValidCandidates(_, _)
ValidCandidates(order, len) ==
    IF order = <<>> THEN <<>>
    ELSE IF CandidateExamined(Head(order), len)
         THEN <<Head(order)>> \o ValidCandidates(Tail(order), len)
         ELSE ValidCandidates(Tail(order), len)

\* slices range(len(dicom_set) - 1) of the full scan
FullScanRange(len) == 0 .. (len - 2)

NoFind == [kind |-> "none", idx |-> -1, expected |-> -1, examined |-> {},
           full_scan |-> FALSE, fallback |-> FALSE]

\* find_slice_ctp528 with the first loop's "return i" lost: every search ends
\* in the full scan.
find_slice_ctp528_no_early_return(len, sig, prb, expected) ==
    LET z_tmp == ZTmp(expected, len)
        valid == ValidCandidates(SearchOrder(z_tmp), len)
        scan  == FullScanRange(len) \cap sig
        base  == [NoFind EXCEPT !.expected = expected]
    IN  IF prb = "no_edge"
        THEN [base EXCEPT !.kind = "raise"]
        ELSE IF prb = "oob" /\ valid # <<>>
        THEN [base EXCEPT !.kind = "raise", !.examined = {valid[1]}]
        ELSE IF scan # {}
        THEN [base EXCEPT !.kind = "ret", !.idx = Min(scan), !.full_scan = TRUE,
                          !.examined = Range(valid) \cup (0 .. Min(scan))]
        ELSE [base EXCEPT !.kind = "ret", !.idx = z_tmp, !.full_scan = TRUE,
                          !.fallback = TRUE,
                          !.examined = Range(valid) \cup FullScanRange(len)]

\* The whole function.  kind is "ret" (a value is returned in idx) or "raise".
\* examined: slices whose line-pair profiles were sampled; full_scan: the
\* second loop was entered; fallback: 'Error: Cannot locate CTP528 module'
\* was printed and z_tmp returned.
find_slice_ctp528(len, sig, prb, expected) ==
    LET z_tmp == ZTmp(expected, len)
        valid == ValidCandidates(SearchOrder(z_tmp), len)
        hits  == { k \in 1..Len(valid) : valid[k] \in sig }
        scan  == FullScanRange(len) \cap sig
        base  == [NoFind EXCEPT !.expected = expected]
    IN  IF prb = "no_edge"
        THEN [base EXCEPT !.kind = "raise"]
        ELSE IF prb = "oob" /\ valid # <<>>
        THEN [base EXCEPT !.kind = "raise", !.examined = {valid[1]}]
        ELSE IF hits # {}
        THEN [base EXCEPT !.kind = "ret", !.idx = valid[Min(hits)],
                          !.examined = { valid[j] : j \in 1..Min(hits) }]
        ELSE IF scan # {}
        THEN [base EXCEPT !.kind = "ret", !.idx = Min(scan), !.full_scan = TRUE,
                          !.examined = Range(valid) \cup (0 .. Min(scan))]
        ELSE [base EXCEPT !.kind = "ret", !.idx = z_tmp, !.full_scan = TRUE,
                          !.fallback = TRUE,
                          !.examined = Range(valid) \cup FullScanRange(len)]

\* ------------------------------------------------------------------------
\* CatPhanGeometry.select_optimal_ctp528_slices
\* ------------------------------------------------------------------------

\* np.argmax(means): 0-based position of the first maximum
ArgMax(means) ==
    Min({ k \in 1..Len(means) : \A j \in 1..Len(means) : means[j] <= means[k] }) - 1

\* the five reads ds[z-2] .. ds[z+2], each resolved as Python resolves it
CandidateReads(len, z) == [ k \in 1..5 |-> PyIndex(z + k - 3, len) ]

\* "idx[tmp-1] = 1; idx[tmp] = 1; idx[tmp+1] = 1" on a numpy array of five
\* zeros, with the except branch that handles the IndexError.  The result is
\* the set of 0-based candidate positions whose flag is set, or {} for the
\* branch that returns the single image img_z.
MarkedCandidates(tmp) ==
    LET lo == PyIndex(tmp - 1, 5)
        hi == PyIndex(tmp + 1, 5)
    IN  IF lo # -1 /\ hi # -1 THEN {lo, tmp, hi}
        ELSE IF tmp = 0 THEN {0, 1}
        ELSE IF tmp = 4 THEN {3, 4}
        ELSE {}

RECURSIVE SumSet(_)
SumSet(S) == IF S = {} THEN 0 ELSE LET x == CHOOSE y \in S : TRUE
                                   IN  x + SumSet(S \ {x})

NoSelect == [kind |-> "none", reads |-> <<>>, tmp |-> -1, marked |-> {},
             z_sum |-> 0, z_cnt |-> 1]

\* The whole function.  The averaged image is the mean of the candidates in
\* marked; z_mean is the rational z_sum / z_cnt.
select_optimal_ctp528_slices(len, z, means) ==
    LET reads  == CandidateReads(len, z)
        tmp    == ArgMax(means)
        marked == MarkedCandidates(tmp)
    IN  IF \E k \in 1..5 : reads[k] = -1
        THEN [NoSelect EXCEPT !.kind = "raise"]
        ELSE IF marked = {}
        THEN [NoSelect EXCEPT !.kind = "ret", !.reads = reads, !.tmp = tmp]
        ELSE [kind |-> "ret", reads |-> reads, tmp |-> tmp, marked |-> marked,
              z_sum |-> SumSet({ i - 2 : i \in marked }) ,
              z_cnt |-> Cardinality(marked)]

\* ------------------------------------------------------------------------
\* SliceLocator.locate_all_modules
\* ------------------------------------------------------------------------

\* The argument of int(): ctp528_index + z_mean + float(d) / z when the
\* position delta is positive, ctp528_index + z_mean - float(d) / z otherwise.
\* z_mean is z_sum / z_cnt and the slice thickness z is thick2 / 2 mm, so the
\* value is IndexSum / (z_cnt * thick2).
IndexSum(i, z_sum, z_cnt, thick2, delta, d) ==
    IF delta > 0
    THEN i * z_cnt * thick2 + z_sum * thick2 + 2 * d * z_cnt
    ELSE i * z_cnt * thick2 + z_sum * thick2 - 2 * d * z_cnt

\* int() taken for math.floor(): rounds negative values away from zero.
PyIntFloor(num, den, rounded) == { num \div den }

\* int(num / den) for den > 0, computed in binary floating point.  A mean of
\* three slice offsets that is not a whole number (z_mean = -1/3) is rounded,
\* and a sum that is a whole number in exact arithmetic may then fall just
\* short of it: int() yields the whole number or its neighbour towards zero.
PyInt(num, den, rounded) ==
    IF rounded /\ num % den = 0 /\ num # 0
    THEN { num \div den, (num \div den) - (IF num > 0 THEN 1 ELSE -1) }
    ELSE { TruncDiv(num, den) }

\* The module-to-module distances of the two phantom models: the pair
\* hard-coded in locate_all_modules ("Distances for CatPhan-500") and the
\* other pair kept in the original script.
OffsetPreset(model) ==
    IF model = "500" THEN [ctp404 |-> d_CTP404, ctp486 |-> d_CTP486]
    ELSE [ctp404 |-> -30, ctp486 |-> -110]

DerivedIndex(i, sel, thick2, delta, d) ==
    PyInt(IndexSum(i, sel.z_sum, sel.z_cnt, thick2, delta, d),
          sel.z_cnt * thick2,
          sel.z_sum % sel.z_cnt # 0 /\ sel.z_cnt = 3)

NoIndices == [set |-> FALSE, ctp528 |-> -1, ctp404 |-> -1, ctp486 |-> -1]

\* the dictionary returned once the three indices are known
ModuleIndices(i, i404, i486) ==
    [set |-> TRUE, ctp528 |-> i, ctp404 |-> i404, ctp486 |-> i486]

\* ------------------------------------------------------------------------
\* CatPhanGeometry.find_center
\* ------------------------------------------------------------------------

\* default of the threshold parameter
DefaultThreshold == 400
\* the threshold of the except branch
FallbackThreshold == 300
\* "offset = 1"
EdgeOffset == 1

\* An image is a disc of intensity fg, centre (cx, cy) (column, row) and
\* radius r on a background of intensity bg.
Pixel(im, x, y) ==
    IF (x - im.cx) * (x - im.cx) + (y - im.cy) * (y - im.cy) <= im.r * im.r
    THEN im.fg ELSE im.bg

\* int(np.round(n / 2)): numpy rounds halves to the even neighbour
RoundHalf(n) ==
    IF n % 2 = 0 THEN n \div 2
    ELSE IF ((n - 1) \div 2) % 2 = 0 THEN (n - 1) \div 2 ELSE (n + 1) \div 2

\* px[x] = image[int(matrix_c[0]), x]
ProfileX(im, x) == Pixel(im, x, RoundHalf(im.rows))

\* py[y] = image[y, int(matrix_c[1])]
ProfileY(im, y) == Pixel(im, RoundHalf(im.cols), y)

\* next(x for x, val in enumerate(px) if val > threshold): the scan from
\* index k upwards; -1 stands for StopIteration
RECURSIVE FirstAboveX(_, _, _)
FirstAboveX(im, thr, k) ==
    IF k >= im.cols THEN -1
    ELSE IF ProfileX(im, k) > thr THEN k ELSE FirstAboveX(im, thr, k + 1)

\* next(x for x, val in reversed(list(enumerate(px))) if val > threshold)
RECURSIVE LastAboveX(_, _, _)
LastAboveX(im, thr, k) ==
    IF k < 0 THEN -1
    ELSE IF ProfileX(im, k) > thr THEN k ELSE LastAboveX(im, thr, k - 1)

RECURSIVE FirstAboveY(_, _, _)
FirstAboveY(im, thr, k) ==
    IF k >= im.rows THEN -1
    ELSE IF ProfileY(im, k) > thr THEN k ELSE FirstAboveY(im, thr, k + 1)

RECURSIVE LastAboveY(_, _, _)
LastAboveY(im, thr, k) ==
    IF k < 0 THEN -1
    ELSE IF ProfileY(im, k) > thr THEN k ELSE LastAboveY(im, thr, k - 1)

\* The edge search without the shift by offset: the edges are the pixel
\* indices themselves.
EdgeSearchUnshifted(im, thr) ==
    LET fx == FirstAboveX(im, thr, 0)
        fy == FirstAboveY(im, thr, 0)
    IN  IF fx = -1 \/ fy = -1
        THEN [ok |-> FALSE, x1 |-> 0, y1 |-> 0, x2 |-> 0, y2 |-> 0]
        ELSE [ok |-> TRUE,
              x1 |-> fx,
              y1 |-> fy,
              x2 |-> LastAboveX(im, thr, im.cols - 1),
              y2 |-> LastAboveY(im, thr, im.rows - 1)]

\* The four next(...) expressions of one attempt, in the order x1, y1, x2,
\* y2.  ok is FALSE when one of them raises StopIteration.
EdgeSearch(im, thr) ==
    LET fx == FirstAboveX(im, thr, 0)
        fy == FirstAboveY(im, thr, 0)
    IN  IF fx = -1 \/ fy = -1
        THEN [ok |-> FALSE, x1 |-> 0, y1 |-> 0, x2 |-> 0, y2 |-> 0]
        ELSE [ok |-> TRUE,
              x1 |-> fx + EdgeOffset,
              y1 |-> fy - EdgeOffset,
              x2 |-> LastAboveX(im, thr, im.cols - 1) + EdgeOffset,
              y2 |-> LastAboveY(im, thr, im.rows - 1) - EdgeOffset]

NoCenter == [first_thr |-> 0, used_thr |-> 0, tries |-> 0, found |-> FALSE,
             cx2 |-> 0, cy2 |-> 0, szx |-> 0, szy |-> 0]

\* center = [(x1 + x2) / 2, (y1 + y2) / 2], kept doubled; szx and szy feed
\* the outer boundary
CenterOf(es, rec) ==
    [rec EXCEPT !.found = TRUE, !.cx2 = es.x1 + es.x2, !.cy2 = es.y1 + es.y2,
                !.szx = es.x2 - es.x1, !.szy = es.y2 - es.y1]

\* ------------------------------------------------------------------------
\* CatPhanGeometry.find_rotation
\* ------------------------------------------------------------------------
\* Coordinates are kept doubled (half-pixels): centres from find_center are
\* multiples of 0.5 and so is the ring radius at the spacings modelled.

\* "iterations = 5"
iterations == 5
\* "c_thres = 30" (pixels)
c_thres == 30
\* "l = 25": half-length of a profile, in pixels
ProfileL == 25
\* "granularity = 3"
granularity == 3
\* search_radius = 58.5 (mm), doubled
search_radius2 == 117

\* len(x_horiz_top) = l * granularity
NumSamples == ProfileL * granularity

\* ring_r = search_radius / space[0], doubled; the spacing is 1 / ppm mm
RingR2(ppm) == search_radius2 * ppm

\* ct = (ring_r*cos(-90 deg) + center[0], ring_r*sin(-90 deg) + center[1]);
\* the cosine term (6e-17 * ring_r) is the same in ct and cb
NominalTop(center, ring2) == [x |-> center.x, y |-> center.y - ring2]

\* cb = (ring_r*cos(90 deg) + center[0], ring_r*sin(90 deg) + center[1])
NominalBottom(center, ring2) == [x |-> center.x, y |-> center.y + ring2]

\* Sample i of np.linspace(c - l, c + l, l*granularity), doubled and
\* multiplied by NumSamples - 1
SampleNum(c2, i) == (NumSamples - 1) * (c2 - 2 * ProfileL) + 4 * ProfileL * i

\* interpn raises ValueError for a point outside the grid 0 .. sz-1; the
\* loop evaluates samples 0 .. NumSamples-2 of each of the four profiles
SampleInGrid(c2, i, sz) ==
    /\ SampleNum(c2, i) >= 0
    /\ SampleNum(c2, i) <= 2 * (sz - 1) * (NumSamples - 1)

ProfilesInGrid(ct, cb, sz) ==
    \A i \in 0 .. NumSamples - 2 :
        /\ SampleInGrid(ct.x, i, sz) /\ SampleInGrid(ct.y, i, sz)
        /\ SampleInGrid(cb.x, i, sz) /\ SampleInGrid(cb.y, i, sz)

\* sum(peaks)/2 - offset with offset = len(x_horiz_top)/2, doubled
MidShift2(peaks) == SumSet(peaks) - NumSamples

\* np.add(ct, mid_top)
ShiftPoint(pt, peaks_h, peaks_v) ==
    [x |-> pt.x + MidShift2(peaks_h), y |-> pt.y + MidShift2(peaks_v)]

\* The test of the top point alone.
ExceedsTopOnly(ct, cb, ct_old, cb_old) ==
    \/ Abs(ct.x - ct_old.x) > 2 * c_thres
    \/ Abs(ct.y - ct_old.y) > 2 * c_thres

\* np.abs(ct[0]-ct_old[0]) > c_thres or ... or np.abs(cb[1]-cb_old[1]) > c_thres
Exceeds(ct, cb, ct_old, cb_old) ==
    \/ Abs(ct.x - ct_old.x) > 2 * c_thres
    \/ Abs(ct.y - ct_old.y) > 2 * c_thres
    \/ Abs(cb.x - cb_old.x) > 2 * c_thres
    \/ Abs(cb.y - cb_old.y) > 2 * c_thres

\* rotation_angle = -arctan(tx/ty) * 180/pi, kept as the tangent -tx / ty
RotationTan(ct, cb) == [num |-> -(ct.x - cb.x), den |-> ct.y - cb.y]

NoPoint == [x |-> 0, y |-> 0]

NoRotation == [i |-> 0, ct |-> NoPoint, cb |-> NoPoint,
               ct_old |-> NoPoint, cb_old |-> NoPoint,
               ct_original |-> NoPoint, cb_original |-> NoPoint,
               ct_new |-> NoPoint, cb_new |-> NoPoint, exit |-> "none"]

\* ------------------------------------------------------------------------
\* CTP404Module.calculate_spatial_scaling
\* ------------------------------------------------------------------------

\* the thresholds in rising order
CascadeAscending == <<5, 10, 20, 30, 40>>

\* "for h in [40, 30, 20, 10, 5]"
Cascade == <<40, 30, 20, 10, 5>>

\* -df
Neg(f) == [i \in DOMAIN f |-> -f[i]]

\* scipy.signal.find_peaks without conditions: the 0-based indices of the
\* strict local maxima, a flat maximum giving the (floored) middle of its
\* plateau; the first and the last sample are never peaks
LocalMaxima(f) ==
    { ((ab[1] + ab[2]) \div 2) - 1 :
        ab \in { ab \in (2 .. Len(f) - 1) \X (2 .. Len(f) - 1) :
                   /\ ab[1] <= ab[2]
                   /\ f[ab[1] - 1] < f[ab[1]]
                   /\ f[ab[2] + 1] < f[ab[2]]
                   /\ \A j \in ab[1] .. ab[2] : f[j] = f[ab[1]] } }

\* find_peaks(f, height=h)
FindPeaks(f, h) == { m \in LocalMaxima(f) : f[m + 1] >= h }

\* np.array(sorted(np.hstack((peaks_max, peaks_min))))
RECURSIVE SortSet(_)
SortSet(S) == IF S = {} THEN << >> ELSE <<Min(S)>> \o SortSet(S \ {Min(S)})

PeaksAt(df, h) == SortSet(FindPeaks(df, h) \cup FindPeaks(Neg(df), h))

\* The break test on the first direction alone.
EnoughPeaksFirstOnly(peaks1, peaks2) == Len(peaks1) >= 2

\* "if len(peaks1) >= 2 and len(peaks2) >= 2"
EnoughPeaks(peaks1, peaks2) == Len(peaks1) >= 2 /\ Len(peaks2) >= 2

\* xscale1 + xscale2 in units of one profile sample step:
\* |ltmp[p[0]] - ltmp[p[len-2]]| + |ltmp[p[1]] - ltmp[p[len-1]]|
ScaleSteps(peaks) ==
    Abs(peaks[1] - peaks[Len(peaks) - 1]) + Abs(peaks[2] - peaks[Len(peaks)])

\* df.min(), df.max()
DfRange(df) == [min |-> Min(Range(df)), max |-> Max(Range(df))]

\* scaling_results is None
NoScaling == [set |-> FALSE, x_scale |-> 0, y_scale |-> 0]

NoError == [raised |-> FALSE, n1 |-> 0, n2 |-> 0,
            df1 |-> [min |-> 0, max |-> 0], df2 |-> [min |-> 0, max |-> 0]]

NoScalingCall == [k |-> 0, peaks1 |-> << >>, peaks2 |-> << >>, prior |-> NoScaling,
                  err |-> NoError, returned |-> FALSE]

\* ------------------------------------------------------------------------
\* CTP528Module._calculate_mtf
\* ------------------------------------------------------------------------

\* "npeaks = [[1,2],[2,3],...]": peaks expected in each line pair
npeaks == << <<1, 2>>, <<2, 3>>, <<3, 4>>, <<4, 4>>, <<5, 4>>,
             <<6, 5>>, <<7, 5>>, <<8, 5>>, <<9, 5>>, <<10, 5>> >>

\* len(theta)
NumTheta == 10

\* "h = 50"
StartHeight == 50

\* "if h <= 10"
FloorHeight == 10

\* sectors analysed: range(len(theta)-1), followed up to MaxSectors
NumSectors == Min({NumTheta - 1, MaxSectors})

\* np.diff(f1)
Diff(f) == [i \in 1 .. Len(f) - 1 |-> f[i + 1] - f[i]]

\* find_peaks(f, height=h) given lm, the local maxima of f
PeaksOver(lm, f, h) == { m \in lm : f[m + 1] >= h }

\* the while condition with the test of the negative peaks only
NotEnoughNegativeOnly(pmax, pmin, pair) == Cardinality(pmin) < pair[2]

\* "(len(peaks_max1) < npeaks_pair[1]) or (len(peaks_min1) < npeaks_pair[1])"
NotEnough(pmax, pmin, pair) ==
    Cardinality(pmax) < pair[2] \/ Cardinality(pmin) < pair[2]

\* f1[a:b] as the set of its values (a, b 0-based, b exclusive)
SliceVals(f, a, b) == { f[k + 1] : k \in a .. b - 1 }

\* sum and count of Imax (parity 0) or Imin (parity 1): for each
\* i in range(len(peaks1)-1) of that parity the extreme value of
\* f1[peaks1[i]-offset : peaks1[i+1]+offset], offset = 1
RECURSIVE Extremes(_, _, _, _)
Extremes(f, peaks1, parity, i) ==
    IF i > Len(peaks1) - 2 THEN [sum |-> 0, n |-> 0]
    ELSE LET rest == Extremes(f, peaks1, parity, i + 1)
             vals == SliceVals(f, peaks1[i + 1] - 1, peaks1[i + 2] + 1)
         IN  IF i % 2 # parity THEN rest
             ELSE [sum |-> rest.sum + (IF parity = 0 THEN Max(vals) ELSE Min(vals)),
                   n |-> rest.n + 1]

\* modulation 0: "return 0, f1" and "MTF = 0"
ZeroMTF == [num |-> 0, den |-> 1]

\* MTF = (mean(Imax) - mean(Imin)) / (mean(Imax) + mean(Imin)) as a fraction
SectorMTF(f, peaks1) ==
    LET mx == Extremes(f, peaks1, 0, 0)
        mn == Extremes(f, peaks1, 1, 0)
    IN  IF mx.n > 0 /\ mn.n > 0
        THEN [num |-> mx.sum * mn.n - mn.sum * mx.n,
              den |-> mx.sum * mn.n + mn.sum * mx.n]
        ELSE ZeroMTF

\* n repetitions of a bar
RECURSIVE Bars(_, _)
Bars(n, bar) == IF n = 0 THEN << >> ELSE bar \o Bars(n - 1, bar)

\* A profile across a line-pair sector: n bars of height amp over the level
\* lo, each rising in one step ("sharp") or in two equal steps ("ramp")
LinePairProfile(n, amp, shape, lo) ==
    <<lo, lo>>
      \o Bars(n, IF shape = "sharp" THEN <<lo + amp, lo>>
                 ELSE <<lo + amp \div 2, lo + amp, lo>>)
      \o <<lo>>

NoSector == [f1 |-> << >>, df1 |-> << >>, lmax |-> {}, lmin |-> {},
             h |-> 0, pmax |-> {}, pmin |-> {}, tried |-> {}]

\* ------------------------------------------------------------------------
\* CTP486Module: prepare_image, analyze_uniformity, _create_box_mask
\* ------------------------------------------------------------------------

roi_box_size == 15

roi_offset == 50

REGIONS == <<"centre", "north", "south", "east", "west">>

\* numpy addition of int16 arrays keeps the width
Wrap16(x) == ((x + 32768) % 65536) - 32768

\* The slices handed to the module: n rows and columns, value v left of
\* column split and v + g from it on.  prepare_image adds the slice and its
\* two neighbours (here three equal slices) and divides by 3; the averaged
\* image is kept in thirds.
AveragedImage(in) ==
    [n |-> in.n, split |-> in.n \div 2,
     lo3 |-> Wrap16(Wrap16(in.v + in.v) + in.v),
     hi3 |-> Wrap16(Wrap16((in.v + in.g) + (in.v + in.g)) + (in.v + in.g))]

AveragedPixel3(im, x) == IF x >= im.split THEN im.hi3 ELSE im.lo3

\* The positions selected by the numpy slice a:b on an axis of length n,
\* a >= 0: an end below zero counts from the end of the axis.
PySlice(a, b, n) ==
    [lo |-> Min({a, n}),
     hi |-> IF b < 0 THEN Max({b + n, 0}) ELSE Min({b, n})]

\* _create_box_mask for the centre (cx2 / 2, cy2 / 2) and a box of roi_sz
\* pixels: the rows and columns set to 1
CreateBoxMask(n, cx2, cy2, roi_sz) ==
    [xs |-> PySlice(Max({0, TruncDiv(cx2 - roi_sz, 2)}),
                    Min({n, TruncDiv(cx2 + roi_sz, 2)}), n),
     ys |-> PySlice(Max({0, TruncDiv(cy2 - roi_sz, 2)}),
                    Min({n, TruncDiv(cy2 + roi_sz, 2)}), n)]

RECURSIVE RowSum3(_, _, _)
RowSum3(im, x, hi) ==
    IF x >= hi THEN 0 ELSE AveragedPixel3(im, x) + RowSum3(im, x + 1, hi)

RECURSIVE BoxSum3(_, _, _, _)
BoxSum3(im, xs, y, hi) ==
    IF y >= hi THEN 0 ELSE RowSum3(im, xs.lo, xs.hi) + BoxSum3(im, xs, y + 1, hi)

\* np.mean of im[mask == 1] as the pair (sum in thirds, count); the mean of
\* an empty selection is nan
RegionMean(im, mask) ==
    [sum |-> BoxSum3(im, mask.xs, mask.ys.lo, mask.ys.hi),
     cnt |-> Max({mask.xs.hi - mask.xs.lo, 0}) * Max({mask.ys.hi - mask.ys.lo, 0})]

\* The five box masks in the order of REGIONS; roi_sz and roi_off are the
\* millimetre sizes divided by the pixel spacing
RegionMasks(im, cx2, cy2, space) ==
    LET roi_sz  == roi_box_size \div space
        roi_off == roi_offset \div space
    IN  << CreateBoxMask(im.n, cx2, cy2, roi_sz),
           CreateBoxMask(im.n, cx2, cy2 - 2 * roi_off, roi_sz),
           CreateBoxMask(im.n, cx2, cy2 + 2 * roi_off, roi_sz),
           CreateBoxMask(im.n, cx2 + 2 * roi_off, cy2, roi_sz),
           CreateBoxMask(im.n, cx2 - 2 * roi_off, cy2, roi_sz) >>

RegionMeans(im, cx2, cy2, space) ==
    LET masks == RegionMasks(im, cx2, cy2, space)
    IN  [k \in 1 .. Len(REGIONS) |-> RegionMean(im, masks[k])]

MeanLeq(a, b) == a.sum * b.cnt <= b.sum * a.cnt

NaN == [kind |-> "nan", num |-> 0, den |-> 1]

Inf == [kind |-> "inf", num |-> 0, den |-> 1]

\* uniformity = (np.max(means) - np.min(means)) / np.max(means) * 100 as
\* the fraction num / den.  A nan mean makes np.max nan; a zero maximum
\* divides by zero, which numpy answers with nan (0 / 0) or inf.
UniformityPercent(means) ==
    IF \E k \in DOMAIN means : means[k].cnt = 0 THEN NaN
    ELSE LET mx == means[CHOOSE k \in DOMAIN means :
                           \A j \in DOMAIN means : MeanLeq(means[j], means[k])]
             mn == means[CHOOSE k \in DOMAIN means :
                           \A j \in DOMAIN means : MeanLeq(means[k], means[j])]
             num == mx.sum * mn.cnt - mn.sum * mx.cnt
         IN  IF mx.sum = 0 THEN (IF num = 0 THEN NaN ELSE Inf)
             ELSE [kind |-> "number", num |-> 100 * num, den |-> mn.cnt * mx.sum]

\* averaged_image is None
NoAveraged == [n |-> 0, split |-> 0, lo3 |-> 0, hi3 |-> 0]

\* uniformity_percent is None
NoPercent == [kind |-> "None", num |-> 0, den |-> 1]

\* the fields of a CTP486Module after __init__
NewCTP486 == [averaged_image |-> NoAveraged, results |-> << >>,
              uniformity_percent |-> NoPercent]

NoUniInput == [v |-> 0, g |-> 0, n |-> 0, space |-> 1, cx2 |-> 0, cy2 |-> 0]

\* ------------------------------------------------------------------------
\* The three module objects on one slice stack: CTP404Module.analyze,
\* CTP486Module.analyze, CTP528Module.analyze
\* ------------------------------------------------------------------------

\* A slice of the stack is described by its background level hu, the
\* contrast amp of its inserts and the width wire of its wire ramp (0: no
\* wire visible).  Pixel values are linear in hu and amp, so the sum of
\* slices is described by the sums of hu and amp, and an averaged image by
\* those sums and the divisor den.  The values stay far from the int16
\* limits.
SliceKinds ==
    { [hu |-> 0, amp |-> 0, wire |-> 0],
      [hu |-> -40, amp |-> 30, wire |-> 3] }

\* averaged_image is None
NoAverage == [hu |-> 0, amp |-> 0, den |-> 0]

MATERIALS == <<"Delrin", "none", "Acrylic", "Air", "Polystyrene",
               "LDPE", "PMP", "Teflon", "Air2">>

ROI_ANGLES == <<0, 30, 60, 90, 120, 180, -120, -60, -90>>

\* The ring of radius 58.5 mm is followed in steps of 30 degrees: the site
\* of the ROI at angle + rotation_offset
RingSite(angle, rotation_offset) == ((angle + rotation_offset) % 360) \div 30

\* the two pixels the circular mask of a site selects, times den
RingPixels(im, site) == <<im.hu + im.amp * site, im.hu + im.amp * (site + 1)>>

\* "self.dicom_set[idx]" for the three reads of prepare_image: 0-based
\* positions, -1 for an IndexError
PrepareReads(len, idx) ==
    <<PyIndex(idx, len), PyIndex(idx + 1, len), PyIndex(idx - 1, len)>>

\* "(im1 + im2 + im3) / 3"
Average3(stack, reads) ==
    [hu  |-> stack[reads[1] + 1].hu + stack[reads[2] + 1].hu + stack[reads[3] + 1].hu,
     amp |-> stack[reads[1] + 1].amp + stack[reads[2] + 1].amp + stack[reads[3] + 1].amp,
     den |-> 3]

\* prepare_image accumulating into the first slice it reads
PrepareStackInPlace(stack, reads) ==
    [stack EXCEPT ![reads[1] + 1] =
        [hu   |-> Average3(stack, reads).hu,
         amp  |-> Average3(stack, reads).amp,
         wire |-> stack[reads[1] + 1].wire]]

\* The stack after prepare_image: im1 + im2 + im3 builds a new array and the
\* slices are left as they are
PrepareStack(stack, reads) == stack

\* analyze_contrast appending to the list it keeps
StoreResultsAppended(old, new) == old \o new

\* "self.results = results"
StoreResults(old, new) == new

\* [ROI_number, material_name, mean_HU, std_HU] of the nine ROIs; the mean is
\* sum / cnt, the standard deviation of the two pixels is std_num / cnt
ContrastResults(im, rotation_offset) ==
    [i \in 1 .. Len(ROI_ANGLES) |->
        LET px == RingPixels(im, RingSite(ROI_ANGLES[i], rotation_offset))
        IN  [roi |-> i, material |-> MATERIALS[i],
             sum |-> px[1] + px[2], cnt |-> 2 * im.den,
             std_num |-> Abs(px[1] - px[2])]]

\* lcv = 3.25 * (polystyrene[3] + ldpe[3]) / (polystyrene[2] - ldpe[2]) on
\* results[4] and results[5] (0-based); numpy answers a zero divisor with
\* nan or inf
LowContrastVisibility(results) ==
    LET polystyrene == results[5]
        ldpe        == results[6]
        num == 13 * (polystyrene.std_num + ldpe.std_num)
        den == 4 * (polystyrene.sum - ldpe.sum)
    IN  IF den = 0 THEN (IF num = 0 THEN NaN ELSE Inf)
        ELSE [kind |-> "number", num |-> num, den |-> den]

\* calculate_slice_thickness on the slice itself: the width of the first
\* peak, 5.0 when there is none
SliceThickness(slice) ==
    IF slice.wire = 0 THEN [kind |-> "default", fwhm |-> 0]
    ELSE [kind |-> "fwhm", fwhm |-> slice.wire]

\* nothing returned yet
NoReturn == [kind |-> "none"]

\* the call left with an IndexError
RaisedIndexError == [kind |-> "IndexError"]

\* the five region means of the uniformity slice (sum / cnt): the level
\* rises by amp from one region to the next
UniformityMeans(im) ==
    [k \in 1 .. Len(REGIONS) |-> [sum |-> im.hu + im.amp * k, cnt |-> im.den]]

\* mean of the line-pair trace through a candidate slice
TraceMean(slice) == slice.hu + slice.amp

\* "for i, include in enumerate(idx): if include: im += images[i]" on one
\* quantity of the five candidates
RECURSIVE MarkedSum(_, _, _)
MarkedSum(vals, marked, i) ==
    IF i > 4 THEN 0
    ELSE (IF i \in marked THEN vals[i + 1] ELSE 0) + MarkedSum(vals, marked, i + 1)

\* The image select_optimal_ctp528_slices returns: the marked candidates
\* summed and divided by their number, or the slice img_z itself
OptimalAverage(stack, sel) ==
    IF sel.marked = {}
    THEN [hu |-> stack[sel.reads[3] + 1].hu, amp |-> stack[sel.reads[3] + 1].amp, den |-> 1]
    ELSE [hu  |-> MarkedSum([k \in 1 .. 5 |-> stack[sel.reads[k] + 1].hu], sel.marked, 0),
          amp |-> MarkedSum([k \in 1 .. 5 |-> stack[sel.reads[k] + 1].amp], sel.marked, 0),
          den |-> Cardinality(sel.marked)]

\* the fields of the module objects after __init__
NewCTP404Module ==
    [slice_index |-> 0, rotation_offset |-> 0, averaged_image |-> NoAverage,
     results |-> << >>, scaling_points |-> "unset", slice_thickness |-> NoReturn]

NewCTP486Module ==
    [slice_index |-> 0, averaged_image |-> NoAverage, results |-> << >>,
     uniformity_percent |-> NoPercent]

NewCTP528Module ==
    [slice_index |-> 0, rotation_offset |-> 0, averaged_image |-> NoAverage,
     results |-> NoReturn]

NoReturns == [prev404 |-> NoReturn, last404 |-> NoReturn,
              last486 |-> NoReturn, last528 |-> NoReturn]

\* ------------------------------------------------------------------------
\* DICOMListener and DICOMProcessor
\* ------------------------------------------------------------------------

\* Identifiers are sequences of characters.  PatientIDs of the DICOM files
\* that arrive: "CatPhan", "MLC-1", "Doe^J" and an identifier of 21
\* characters that ends in "iso"; PrmPrefixes: the text before the first
\* '_' in the name of a .prm file.
PatientIDs ==
    << <<"C", "a", "t", "P", "h", "a", "n">>,
       <<"M", "L", "C", "-", "1">>,
       <<"D", "o", "e", "^", "J">>,
       <<"x", "x", "x", "x", "x", "x", "x", "x", "x", "x", "x", "x", "x", "x",
         "x", "x", "x", "x", "i", "s", "o">> >>

PrmPrefixes == << <<"u", "2", "3">> >>

\* the kinds of file that arrive: a DICOM file with one of the PatientIDs or
\* a .prm file with one of the PrmPrefixes
FileKinds ==
    { [kind |-> "dcm", id |-> k] : k \in 1 .. Len(PatientIDs) }
      \cup { [kind |-> "prm", id |-> k] : k \in 1 .. Len(PrmPrefixes) }

\* "patient_id = ds.PatientID" and "patient_id = file.split('_')[0] + 'prof'"
PatientIdOf(file) ==
    IF file.kind = "prm" THEN PrmPrefixes[file.id] \o <<"p", "r", "o", "f">>
    ELSE PatientIDs[file.id]

UpperToLower ==
    [c \in {"C", "P", "M", "L", "D", "J"} |->
        CASE c = "C" -> "c" [] c = "P" -> "p" [] c = "M" -> "m"
          [] c = "L" -> "l" [] c = "D" -> "d" [] c = "J" -> "j"]

\* str.lower()
Lower(s) ==
    [i \in 1 .. Len(s) |-> IF s[i] \in DOMAIN UpperToLower THEN UpperToLower[s[i]] ELSE s[i]]

\* "keyword in s"
Contains(s, keyword) ==
    \E i \in 1 .. Len(s) - Len(keyword) + 1 :
        SubSeq(s, i, i + Len(keyword) - 1) = keyword

Keywords == { <<"m", "l", "c">>, <<"i", "s", "o">>, <<"p", "r", "o", "f">>, <<"c", "a", "t">> }

\* the test on the identifier as it is written
IsQaCaseSensitive(patient_id) == \E keyword \in Keywords : Contains(patient_id, keyword)

\* "is_qa = any(keyword in patient_id.lower() for keyword in [...])"
IsQa(patient_id) == \E keyword \in Keywords : Contains(Lower(patient_id), keyword)

\* characters of the identifiers for which x.isalnum() is false
NotAlnum == {"-", "^", "_", " "}

\* "patient_id[:min(20, len(patient_id))]" and the filter that keeps
\* alphanumeric characters, '_' and ' '
PatientIdClean(patient_id) ==
    SelectSeq(SubSeq(patient_id, 1, Min({20, Len(patient_id)})),
              LAMBDA x : x \notin NotAlnum \/ x \in {"_", " "})

\* f"{patient_id_clean}_{timestamp}"
DirName(patient_id, timestamp) == <<PatientIdClean(patient_id), timestamp>>

\* The counters after the test "if total_files > self.file_count_old ...
\* elif total_files == self.file_count_old", with the arrival counted twice
CountersArrivalTwice(total_files, old, wait) ==
    IF total_files > old THEN [file_count_old |-> total_files, wait_counter |-> 2]
    ELSE IF total_files = old THEN [file_count_old |-> old, wait_counter |-> wait + 1]
    ELSE [file_count_old |-> old, wait_counter |-> wait]

\* "if total_files > self.file_count_old: wait_counter = 1; file_count_old =
\* total_files  elif total_files == self.file_count_old: wait_counter += 1"
Counters(total_files, old, wait) ==
    IF total_files > old THEN [file_count_old |-> total_files, wait_counter |-> 1]
    ELSE IF total_files = old THEN [file_count_old |-> old, wait_counter |-> wait + 1]
    ELSE [file_count_old |-> old, wait_counter |-> wait]

\* the patient identifiers of the groups _transfer_and_flag forms
GroupIds(files) == { PatientIdOf(f) : f \in files }

\* the directories _transfer_group creates under a root for the groups that
\* are (qa = TRUE) or are not QA groups, with the files moved into each
GroupDirs(files, timestamp, qa) ==
    { [name  |-> DirName(p, timestamp),
       files |-> { f \in files : PatientIdOf(f) = p }] :
        p \in { q \in GroupIds(files) : IsQa(q) = qa } }

\* the flag files written: name and content
FlagFiles(files, timestamp) ==
    { [name |-> DirName(p, timestamp), content |-> DirName(p, timestamp)] :
        p \in { q \in GroupIds(files) : IsQa(q) } }

\* ------------------------------------------------------------------------
\* ImageProcessor.average_slices
\* ------------------------------------------------------------------------

\* "images = [dicom_set[idx].pixel_array for idx in indices]" for the
\* indices [idx-1, idx, idx+1] of find_module_centers, each resolved as
\* Python resolves it
AverageSlicesReads(len, idx) == [ k \in 1..3 |-> PyIndex(idx + k - 2, len) ]

\* ------------------------------------------------------------------------
\* CTP528Module.analyze: normalisation and interpolation
\* ------------------------------------------------------------------------

\* "MTF_sample = (0.8, 0.5, 0.3, 0.1)", in tenths
MTF_sample == <<8, 5, 3, 1>>

\* "nMTF = mtf / max(np.array(mtf))": each entry the fraction mtf[i] / max;
\* with a maximum of 0 numpy divides 0 by 0 and every entry is nan
NormalizedMTF(mtf) ==
    [i \in DOMAIN mtf |->
        IF Max(Range(mtf)) = 0 THEN NaN
        ELSE [kind |-> "number", num |-> mtf[i], den |-> Max(Range(mtf))]]

\* "lp = np.linspace(1, len(mtf), len(mtf)) / 10", in tenths of lp/mm
LpFrequencies(n) == [i \in 1 .. n |-> i]

\* s[::-1]
Reverse(s) == [i \in 1 .. Len(s) |-> s[Len(s) + 1 - i]]

\* the abscissa np.interp requires: numbers that do not decrease
Increasing(xp) ==
    /\ \A i \in DOMAIN xp : xp[i].kind = "number"
    /\ \A i \in 1 .. Len(xp) - 1 : xp[i].num <= xp[i + 1].num

\* the value np.interp returns for an abscissa that is not increasing
Unspecified == [kind |-> "unspecified", num |-> 0, den |-> 1]

\* np.interp(x, xp, fp) for x = x10 / 10, the entries of xp fractions over
\* one denominator and fp whole numbers: fp at the ends outside the range
\* of xp, the straight line between the two neighbours inside it
Interp(x10, xp, fp) ==
    IF \E i \in DOMAIN xp : xp[i].kind = "nan" THEN NaN
    ELSE IF ~Increasing(xp) THEN Unspecified
    ELSE IF x10 * xp[1].den < 10 * xp[1].num
    THEN [kind |-> "number", num |-> fp[1], den |-> 1]
    ELSE LET j == Max({ i \in DOMAIN xp : 10 * xp[i].num <= x10 * xp[i].den })
         IN  IF j = Len(xp)
             THEN [kind |-> "number", num |-> fp[j], den |-> 1]
             ELSE [kind |-> "number",
                   num  |-> fp[j] * 10 * (xp[j + 1].num - xp[j].num)
                              + (x10 * xp[j].den - 10 * xp[j].num) * (fp[j + 1] - fp[j]),
                   den  |-> 10 * (xp[j + 1].num - xp[j].num)]

\* "fMTF = np.interp(MTF_sample, nMTF[::-1], lp[::-1])"
InterpolatedMTF(nMTF) ==
    [k \in DOMAIN MTF_sample |->
        Interp(MTF_sample[k], Reverse(nMTF), Reverse(LpFrequencies(Len(nMTF))))]

\* ------------------------------------------------------------------------
\* State
\* ------------------------------------------------------------------------

VARIABLES
    \* --- slice stack and analyzer construction (inputs) ---
    dicom_len,       \* len(dicom_set)
    lp_sig,          \* slices whose line-pair derivative count exceeds thres2
    probe,           \* outcome of the geometry set-up in find_slice_ctp528
    catphan_model,   \* CatPhanAnalyzer.catphan_model
    \* --- module location ---
    loc_pc,          \* position inside locate_modules / find_slice_ctp528
    fs,              \* what find_slice_ctp528 did and returned
    so,              \* what select_optimal_ctp528_slices did and returned
    hdr,             \* SliceThickness and SliceLocation delta read by the locator
    slice_indices,   \* CatPhanAnalyzer.slice_indices
    \* --- find_center ---
    image,           \* the image argument
    fc_pc,           \* position inside find_center
    fc,              \* thresholds tried and the centre found
    \* --- find_rotation ---
    rot_in,          \* image size, centre and pixel spacing arguments
    rot_pc,          \* position inside find_rotation
    rot,             \* loop counter and the points of the refinement
    rot_ret,         \* the returned tuple
    \* --- calculate_spatial_scaling ---
    sc_df,           \* df1 and df2, the derivatives of the two profiles
    sc_pc,           \* position inside calculate_spatial_scaling
    sc,              \* cascade position, peaks, error raised
    scaling_results, \* CTP404Module.scaling_results
    scaling_points,  \* CTP404Module.scaling_points
    \* --- CatPhanAnalyzer ---
    an,              \* the analyzer's fields
    an_pc,           \* position inside analyze(), "ready" between calls
    an_call,         \* outcome of the last public call and what it ran
    \* --- _calculate_mtf ---
    mtf_pc,          \* position inside _calculate_mtf
    mtf_i,           \* index of the line pair being analysed
    mtf_sec,         \* profile, derivative, threshold and peaks of that line pair
    MTF,             \* the list MTF
    \* --- CTP486Module ---
    ctp486_in,       \* image, centre and pixel spacing seen by the CTP486 module
    ctp486_obj,      \* the fields of the CTP486Module
    ctp486_calls,    \* public calls made on it
    \* --- the module objects ---
    stack,           \* the slice stack shared by the three module objects
    stack_orig,      \* the stack as it was handed to the modules
    mod404,          \* the fields of the CTP404Module
    mod486,          \* the fields of the CTP486Module
    mod528,          \* the fields of the CTP528Module
    ret,             \* what the analyze() calls returned
    \* --- the listener service ---
    wait_cycles,     \* DICOMListener.wait_cycles
    new_data,        \* the DICOM and .prm files in new_data_path
    arrived,         \* files written by the receiver so far
    file_count_old,  \* DICOMListener.file_count_old
    wait_counter,    \* DICOMListener.wait_counter
    service,         \* the loop of start() is running or was interrupted
    qa_path,         \* the directories under qa_path
    other_path,      \* the directories under other_path
    analysis_path,   \* the flag files in analysis_path
    callbacks,       \* the calls of the analysis callback
    analysed,        \* the directories analysed by the DICOMProcessor
    transfers,       \* transfers made so far
    polls_since_arrival, \* polls made since the last file arrived
    \* --- find_air_roi_centers ---
    air_pc,          \* position inside find_air_roi_centers
    air,             \* the arguments, the peaks found and the points returned
    \* --- CTP528Module.analyze ---
    res_pc,          \* position inside CTP528Module.analyze
    res_mtf,         \* the modulations _calculate_mtf returned
    res              \* nMTF and the interpolated frequencies

locVars == <<dicom_len, lp_sig, probe, catphan_model, loc_pc, fs, so, hdr, slice_indices>>

cenVars == <<image, fc_pc, fc>>

rotVars == <<rot_in, rot_pc, rot, rot_ret>>

scVars == <<sc_df, sc_pc, sc, scaling_results, scaling_points>>

anVars == <<an, an_pc, an_call>>

mtfVars == <<mtf_pc, mtf_i, mtf_sec, MTF>>

uniVars == <<ctp486_in, ctp486_obj, ctp486_calls>>

modVars == <<stack, stack_orig, mod404, mod486, mod528, ret>>

lisVars == <<wait_cycles, new_data, arrived, file_count_old, wait_counter, service, qa_path, other_path, analysis_path, callbacks, analysed, transfers, polls_since_arrival>>

airVars == <<air_pc, air>>

resVars == <<res_pc, res_mtf, res>>

vars == <<locVars, cenVars, rotVars, scVars, anVars, mtfVars, uniVars, modVars, lisVars, airVars, resVars>>

\* ------------------------------------------------------------------------
\* Idle values: a component that a specification does not exercise
\* ------------------------------------------------------------------------

NoHeader == [thick2 |-> 0, delta |-> 0]

LocIdle ==
    /\ dicom_len = 0
    /\ lp_sig = {}
    /\ probe = "ok"
    /\ catphan_model = "500"
    /\ loc_pc = "idle"
    /\ fs = NoFind
    /\ so = NoSelect
    /\ hdr = NoHeader
    /\ slice_indices = NoIndices

NoImage == [rows |-> 0, cols |-> 0, cx |-> 0, cy |-> 0, r |-> 0, fg |-> 0, bg |-> 0]

CenIdle ==
    /\ image = NoImage
    /\ fc_pc = "idle"
    /\ fc = NoCenter

NoRotIn == [sz |-> 0, ppm |-> 0, center |-> NoPoint]

NoRotRet == [returned |-> FALSE, tan |-> [num |-> 0, den |-> 0],
             ct |-> NoPoint, cb |-> NoPoint]

RotIdle ==
    /\ rot_in = NoRotIn
    /\ rot_pc = "idle"
    /\ rot = NoRotation
    /\ rot_ret = NoRotRet

ScIdle ==
    /\ sc_df = [df1 |-> << >>, df2 |-> << >>]
    /\ sc_pc = "idle"
    /\ sc = NoScalingCall
    /\ scaling_results = NoScaling
    /\ scaling_points = "none"

\* CatPhanAnalyzer.__init__
NewAnalyzer ==
    [dicom_set |-> FALSE, slice_indices |-> FALSE, module_centers |-> "none",
     rotation_offset |-> 0, points |-> FALSE,
     ctp404 |-> "none", ctp486 |-> "none", ctp528 |-> "none",
     scaling_points |-> FALSE, x_scale |-> FALSE, results |-> {},
     series_rot |-> 0, rot404 |-> 0, rot528 |-> 0, ctp404_analysed |-> FALSE]

NoCall == [op |-> "none", exc |-> "none", ran |-> << >>]

AnIdle ==
    /\ an = NewAnalyzer
    /\ an_pc = "idle"
    /\ an_call = NoCall

MtfIdle ==
    /\ mtf_pc = "idle"
    /\ mtf_i = 0
    /\ mtf_sec = NoSector
    /\ MTF = << >>

UniIdle ==
    /\ ctp486_in = NoUniInput
    /\ ctp486_obj = NewCTP486
    /\ ctp486_calls = 0

ModIdle ==
    /\ stack = << >>
    /\ stack_orig = << >>
    /\ mod404 = NewCTP404Module
    /\ mod486 = NewCTP486Module
    /\ mod528 = NewCTP528Module
    /\ ret = NoReturns

LisIdle ==
    /\ wait_cycles = 0
    /\ new_data = {}
    /\ arrived = 0
    /\ file_count_old = 0
    /\ wait_counter = 0
    /\ service = "idle"
    /\ qa_path = {}
    /\ other_path = {}
    /\ analysis_path = {}
    /\ callbacks = {}
    /\ analysed = {}
    /\ transfers = 0
    /\ polls_since_arrival = 0

NoAirCall == [ct |-> NoPoint, cb |-> NoPoint, sz |-> 0,
              peaks_ht |-> {}, peaks_vt |-> {}, peaks_hb |-> {}, peaks_vb |-> {},
              ct_new |-> NoPoint, cb_new |-> NoPoint]

AirIdle ==
    /\ air_pc = "idle"
    /\ air = NoAirCall

NoResolution == [nMTF |-> << >>, fMTF |-> << >>]

ResIdle ==
    /\ res_pc = "idle"
    /\ res_mtf = << >>
    /\ res = NoResolution

\* module location leaves the other components alone
LocFrame == UNCHANGED <<cenVars, rotVars, scVars, anVars, mtfVars, uniVars, modVars, lisVars, airVars, resVars>>

\* everything outside find_center
CenFrame == UNCHANGED <<locVars, rotVars, scVars, anVars, mtfVars, uniVars, modVars, lisVars, airVars, resVars>>

\* everything outside find_rotation
RotFrame == UNCHANGED <<locVars, cenVars, scVars, anVars, mtfVars, uniVars, modVars, lisVars, airVars, resVars>>

\* everything outside calculate_spatial_scaling
ScFrame == UNCHANGED <<locVars, cenVars, rotVars, anVars, mtfVars, uniVars, modVars, lisVars, airVars, resVars>>

\* everything outside the analyzer
AnFrame == UNCHANGED <<locVars, cenVars, rotVars, scVars, mtfVars, uniVars, modVars, lisVars, airVars, resVars>>

\* everything outside _calculate_mtf
MtfFrame == UNCHANGED <<locVars, cenVars, rotVars, scVars, anVars, uniVars, modVars, lisVars, airVars, resVars>>

\* everything outside CTP486Module
UniFrame == UNCHANGED <<locVars, cenVars, rotVars, scVars, anVars, mtfVars, modVars, lisVars, airVars, resVars>>

\* everything outside the module objects
ModFrame == UNCHANGED <<locVars, cenVars, rotVars, scVars, anVars, mtfVars, uniVars, lisVars, airVars, resVars>>

\* everything outside the listener service
LisFrame == UNCHANGED <<locVars, cenVars, rotVars, scVars, anVars, mtfVars, uniVars, modVars, airVars, resVars>>

\* everything outside find_air_roi_centers
AirFrame == UNCHANGED <<locVars, cenVars, rotVars, scVars, anVars, mtfVars, uniVars, modVars, lisVars, resVars>>

\* everything outside CTP528Module.analyze
ResFrame == UNCHANGED <<locVars, cenVars, rotVars, scVars, anVars, mtfVars, uniVars, modVars, lisVars, airVars>>


\* ------------------------------------------------------------------------
\* find_center: initial states and steps
\* ------------------------------------------------------------------------

\* intensities of the disc: at the fallback threshold, between the two
\* thresholds of the code, above both
DiscLevels == {300, 350, 450}

\* thresholds a caller passes
Thresholds == {200, FallbackThreshold, DefaultThreshold}

\* A disc image of any size in 44..MaxImg with the disc centre anywhere
\* inside the image, and a call find_center(image, threshold).
CenInit ==
    /\ image \in [rows : 44..MaxImg, cols : 44..MaxImg,
                  cx : 0 .. MaxImg - 1, cy : 0 .. MaxImg - 1,
                  r : 20..MaxRadius, fg : DiscLevels, bg : {0}]
    /\ image.cx < image.cols
    /\ image.cy < image.rows
    /\ fc_pc = "try"
    /\ \E thr \in Thresholds :
          fc = [NoCenter EXCEPT !.first_thr = thr, !.used_thr = thr, !.tries = 1]

\* the try block: both edges of the central row and of the central column
\* at the given threshold
FindCenterTry ==
    /\ fc_pc = "try"
    /\ LET es == EdgeSearch(image, fc.first_thr)
       IN  IF es.ok
           THEN /\ fc' = CenterOf(es, fc)
                /\ fc_pc' = "done"
           ELSE /\ fc' = fc
                /\ fc_pc' = "except"
    /\ UNCHANGED image
    /\ CenFrame

\* the except block: threshold = 300 and the same four searches; a
\* StopIteration raised here leaves find_center
FindCenterExcept ==
    /\ fc_pc = "except"
    /\ LET es == EdgeSearch(image, FallbackThreshold)
           rec == [fc EXCEPT !.used_thr = FallbackThreshold, !.tries = fc.tries + 1]
       IN  IF es.ok
           THEN /\ fc' = CenterOf(es, rec)
                /\ fc_pc' = "done"
           ELSE /\ fc' = rec
                /\ fc_pc' = "raised"
    /\ UNCHANGED image
    /\ CenFrame

CenNext == FindCenterTry \/ FindCenterExcept

InitCenter == CenInit /\ LocIdle /\ RotIdle /\ ScIdle /\ AnIdle /\ MtfIdle /\ UniIdle /\ ModIdle /\ LisIdle /\ AirIdle /\ ResIdle

SpecCenter == InitCenter /\ [][CenNext]_vars

\* ------------------------------------------------------------------------
\* find_rotation: initial states and steps
\* ------------------------------------------------------------------------

\* np.array peak indices of one derivative profile: none, a pair centred on
\* the profile, a pair 30 pixels off, a pair 31 pixels off
PeakFamilies == { {}, {37, 38}, {67, 68}, {68, 69} }

\* The state on entry to the for loop: ct, cb are the nominal estimates.
\* ct_new, cb_new record what find_air_roi_centers last returned and start
\* at the nominal estimates too.
RotInit ==
    /\ rot_in \in [sz : {RotImg}, ppm : {1, 2},
                   center : [x : {RotImg}, y : {RotImg, RotImg + 21}]]
    /\ rot_pc = "loop"
    /\ LET ct == NominalTop(rot_in.center, RingR2(rot_in.ppm))
           cb == NominalBottom(rot_in.center, RingR2(rot_in.ppm))
       IN  rot = [NoRotation EXCEPT !.ct = ct, !.cb = cb,
                                    !.ct_old = ct, !.cb_old = cb,
                                    !.ct_original = ct, !.cb_original = cb,
                                    !.ct_new = ct, !.cb_new = cb]
    /\ rot_ret = NoRotRet

\* One pass of "for i in range(iterations)": find_air_roi_centers inside
\* the try, then the threshold test.
RotIterate ==
    /\ rot_pc = "loop"
    /\ rot.i < iterations
    /\ IF ~ProfilesInGrid(rot.ct, rot.cb, rot_in.sz)
       THEN /\ rot' = [rot EXCEPT !.i = @ + 1, !.exit = "except"]
            /\ rot_pc' = "calc"
       ELSE \E pht \in PeakFamilies, pvt \in PeakFamilies,
               phb \in PeakFamilies, pvb \in PeakFamilies :
              LET ct_new == ShiftPoint(rot.ct, pht, pvt)
                  cb_new == ShiftPoint(rot.cb, phb, pvb)
              IN  IF Exceeds(ct_new, cb_new, rot.ct_old, rot.cb_old)
                  THEN /\ rot' = [rot EXCEPT !.i = @ + 1,
                                             !.ct = rot.ct_original,
                                             !.cb = rot.cb_original,
                                             !.ct_new = ct_new, !.cb_new = cb_new,
                                             !.exit = "rollback"]
                       /\ rot_pc' = "calc"
                  ELSE /\ rot' = [rot EXCEPT !.i = @ + 1,
                                             !.ct = ct_new, !.cb = cb_new,
                                             !.ct_old = ct_new, !.cb_old = cb_new,
                                             !.ct_new = ct_new, !.cb_new = cb_new]
                       /\ rot_pc' = IF rot.i + 1 = iterations THEN "calc" ELSE "loop"
    /\ UNCHANGED <<rot_in, rot_ret>>
    /\ RotFrame

\* "Calculate rotation angle" and return
RotReturn ==
    /\ rot_pc = "calc"
    /\ rot_ret' = [returned |-> TRUE, tan |-> RotationTan(rot.ct, rot.cb),
                   ct |-> rot.ct, cb |-> rot.cb]
    /\ rot_pc' = "done"
    /\ UNCHANGED <<rot_in, rot>>
    /\ RotFrame

RotNext == RotIterate \/ RotReturn

InitRotation == RotInit /\ LocIdle /\ CenIdle /\ ScIdle /\ AnIdle /\ MtfIdle /\ UniIdle /\ ModIdle /\ LisIdle /\ AirIdle /\ ResIdle

SpecRotation == InitRotation /\ [][RotNext]_vars

\* ------------------------------------------------------------------------
\* calculate_spatial_scaling: initial states and steps
\* ------------------------------------------------------------------------

\* derivative values of the first direction: a strong falling edge, flat, a
\* medium rising edge
DfValues1 == {-45, 0, 25}

\* derivative values of the second direction: the rising edge is faint
DfValues2 == {-45, 0, 7}

\* derivatives of the first direction: any profile of MaxDf samples
Df1Set == [1 .. MaxDf -> DfValues1]

\* derivatives of the second direction: isolated extrema
Df2Set ==
    { [i \in 1 .. MaxDf |-> IF i % 2 = 0 THEN a[i \div 2] ELSE 0] :
        a \in [1 .. (MaxDf \div 2) -> DfValues2] }

\* the result of an earlier call with peaks <<1, 2, 3>> and <<1, 3>>
PriorScaling == [set |-> TRUE, x_scale |-> 2, y_scale |-> 0]

\* The state after "df2 = np.diff(f2)", on a module that has or has not
\* been through an earlier call.
ScInit ==
    /\ sc_df \in [df1 : Df1Set, df2 : Df2Set]
    /\ \/ scaling_results = NoScaling /\ scaling_points = "none"
       \/ scaling_results = PriorScaling /\ scaling_points = "prior"
    /\ sc = [NoScalingCall EXCEPT !.k = 1, !.prior = scaling_results]
    /\ sc_pc = "cascade"

\* one pass of "for h in [40, 30, 20, 10, 5]"
ScCascadeStep ==
    /\ sc_pc = "cascade"
    /\ sc.k <= Len(Cascade)
    /\ \E peaks1 \in {PeaksAt(sc_df.df1, Cascade[sc.k])},
          peaks2 \in {PeaksAt(sc_df.df2, Cascade[sc.k])} :
           /\ sc' = [sc EXCEPT !.peaks1 = peaks1, !.peaks2 = peaks2,
                               !.k = IF EnoughPeaks(peaks1, peaks2) THEN @ ELSE @ + 1]
           /\ sc_pc' = IF EnoughPeaks(peaks1, peaks2) \/ sc.k = Len(Cascade)
                       THEN "check" ELSE "cascade"
    /\ UNCHANGED <<sc_df, scaling_results, scaling_points>>
    /\ ScFrame

\* "if peaks1 is None or len(peaks1) < 2 or len(peaks2) < 2: raise ValueError"
ScRaise ==
    /\ sc_pc = "check"
    /\ Len(sc.peaks1) < 2 \/ Len(sc.peaks2) < 2
    /\ sc' = [sc EXCEPT !.err = [raised |-> TRUE,
                                 n1 |-> Len(sc.peaks1), n2 |-> Len(sc.peaks2),
                                 df1 |-> DfRange(sc_df.df1),
                                 df2 |-> DfRange(sc_df.df2)]]
    /\ sc_pc' = "raised"
    /\ UNCHANGED <<sc_df, scaling_results, scaling_points>>
    /\ ScFrame

\* the scale computation, the two assignments to self and the return
ScFinish ==
    /\ sc_pc = "check"
    /\ ~(Len(sc.peaks1) < 2 \/ Len(sc.peaks2) < 2)
    /\ scaling_results' = [set |-> TRUE, x_scale |-> ScaleSteps(sc.peaks1),
                           y_scale |-> ScaleSteps(sc.peaks2)]
    /\ scaling_points' = "pts"
    /\ sc' = [sc EXCEPT !.returned = TRUE]
    /\ sc_pc' = "done"
    /\ UNCHANGED sc_df
    /\ ScFrame

ScNext == ScCascadeStep \/ ScRaise \/ ScFinish

InitScaling == ScInit /\ LocIdle /\ CenIdle /\ RotIdle /\ AnIdle /\ MtfIdle /\ UniIdle /\ ModIdle /\ LisIdle /\ AirIdle /\ ResIdle

SpecScaling == InitScaling /\ [][ScNext]_vars

\* ------------------------------------------------------------------------
\* CatPhanAnalyzer: the public methods and the steps of analyze()
\* ------------------------------------------------------------------------
\* A field of the record an is TRUE when the attribute is non-empty / not
\* None.  module_centers and ctp404 carry which centre of the contrast
\* module they hold.  What a sub-operation computes is settled by the other
\* components; here it either succeeds or raises.

\* value of rotation_offset set by find_rotation: none or some rotation
RotationOffsets == {0, 1}

\* a public call that ends: the outcome is recorded and control is back
\* with the caller
Returned(op, ran) == [op |-> op, exc |-> "none", ran |-> ran]

Raised(op, exc, ran) == [op |-> op, exc |-> exc, ran |-> ran]

\* load_dicom_files: the directory holds readable slices or none
load_dicom_files(a, found) == [a EXCEPT !.dicom_set = found]

\* locate_modules on a non-empty stack that locates the modules
locate_modules(a) == [a EXCEPT !.slice_indices = TRUE]

\* find_module_centers that finds the three centres
find_module_centers(a) == [a EXCEPT !.module_centers = "coarse"]

\* find_rotation: the offset measured on the series, a.series_rot at the
\* call sites
find_rotation(a, offset) == [a EXCEPT !.rotation_offset = offset, !.points = TRUE]

\* initialize_modules: the three objects are built from the analyzer's
\* current centres and rotation offset (rot404, rot528: the rotation_offset
\* field of the contrast and of the resolution module)
initialize_modules(a) ==
    [a EXCEPT !.ctp404 = a.module_centers, !.ctp486 = "init", !.ctp528 = "init",
              !.scaling_points = FALSE,
              !.rot404 = a.rotation_offset, !.rot528 = a.rotation_offset,
              !.ctp404_analysed = FALSE]

\* a new analyzer for a series whose phantom is rotated by series_rot
AnInit ==
    /\ \E r \in RotationOffsets : an = [NewAnalyzer EXCEPT !.series_rot = r]
    /\ an_pc = "ready"
    /\ an_call = NoCall

LoadDicomFiles ==
    /\ an_pc = "ready"
    /\ \E found \in BOOLEAN : an' = load_dicom_files(an, found)
    /\ an_call' = Returned("load_dicom_files", << >>)
    /\ UNCHANGED an_pc
    /\ AnFrame

\* SliceLocator on an empty list fails on dicom_set[-1]; on a stack it
\* returns the indices or raises (see the module location steps)
LocateModules ==
    /\ an_pc = "ready"
    /\ \/ /\ ~an.dicom_set
          /\ an_call' = Raised("locate_modules", "IndexError", << >>)
          /\ UNCHANGED an
       \/ /\ an.dicom_set
          /\ \/ /\ an' = locate_modules(an)
                /\ an_call' = Returned("locate_modules", << >>)
             \/ /\ an_call' = Raised("locate_modules", "ValueError", << >>)
                /\ UNCHANGED an
    /\ UNCHANGED an_pc
    /\ AnFrame

\* self.slice_indices['ctp528'] on the empty dict is a KeyError; find_center
\* raises StopIteration when it finds no edge
FindModuleCenters ==
    /\ an_pc = "ready"
    /\ \/ /\ ~an.slice_indices
          /\ an_call' = Raised("find_module_centers", "KeyError", << >>)
          /\ UNCHANGED an
       \/ /\ an.slice_indices
          /\ \/ /\ an' = find_module_centers(an)
                /\ an_call' = Returned("find_module_centers", << >>)
             \/ /\ an_call' = Raised("find_module_centers", "StopIteration", << >>)
                /\ UNCHANGED an
    /\ UNCHANGED an_pc
    /\ AnFrame

FindRotation ==
    /\ an_pc = "ready"
    /\ \/ /\ ~an.slice_indices \/ an.module_centers = "none"
          /\ an_call' = Raised("find_rotation", "KeyError", << >>)
          /\ UNCHANGED an
       \/ /\ an.slice_indices /\ an.module_centers # "none"
          /\ an' = find_rotation(an, an.series_rot)
          /\ an_call' = Returned("find_rotation", << >>)
    /\ UNCHANGED an_pc
    /\ AnFrame

InitializeModules ==
    /\ an_pc = "ready"
    /\ \/ /\ ~an.slice_indices \/ an.module_centers = "none"
          /\ an_call' = Raised("initialize_modules", "KeyError", << >>)
          /\ UNCHANGED an
       \/ /\ an.slice_indices /\ an.module_centers # "none"
          /\ an' = initialize_modules(an)
          /\ an_call' = Returned("initialize_modules", << >>)
    /\ UNCHANGED an_pc
    /\ AnFrame

\* entry of analyze()
AnalyzeBegin ==
    /\ an_pc = "ready"
    /\ an_pc' = "load"
    /\ an_call' = [op |-> "analyze", exc |-> "running", ran |-> << >>]
    /\ UNCHANGED an
    /\ AnFrame

\* "if not self.dicom_set: self.load_dicom_files()"
AnalyzeLoad ==
    /\ an_pc = "load"
    /\ IF an.dicom_set
       THEN UNCHANGED <<an, an_call>>
       ELSE /\ \E found \in BOOLEAN : an' = load_dicom_files(an, found)
            /\ an_call' = [an_call EXCEPT !.ran = Append(@, "load")]
    /\ an_pc' = "locate"
    /\ AnFrame

\* "if not self.slice_indices: self.locate_modules()"
AnalyzeLocate ==
    /\ an_pc = "locate"
    /\ \/ /\ an.slice_indices
          /\ an_pc' = "centers"
          /\ UNCHANGED <<an, an_call>>
       \/ /\ ~an.slice_indices /\ ~an.dicom_set
          /\ an_call' = Raised("analyze", "IndexError", an_call.ran)
          /\ an_pc' = "ready"
          /\ UNCHANGED an
       \/ /\ ~an.slice_indices /\ an.dicom_set
          /\ \/ /\ an' = locate_modules(an)
                /\ an_pc' = "centers"
                /\ an_call' = [an_call EXCEPT !.ran = Append(@, "locate")]
             \/ /\ an_call' = Raised("analyze", "ValueError", an_call.ran)
                /\ an_pc' = "ready"
                /\ UNCHANGED an
    /\ AnFrame

\* "if not self.module_centers: self.find_module_centers(); self.find_rotation()"
AnalyzeCenters ==
    /\ an_pc = "centers"
    /\ \/ /\ an.module_centers # "none"
          /\ an_pc' = "init"
          /\ UNCHANGED <<an, an_call>>
       \/ /\ an.module_centers = "none"
          /\ \/ /\ an' = find_rotation(find_module_centers(an), an.series_rot)
                /\ an_pc' = "init"
                /\ an_call' = [an_call EXCEPT !.ran = @ \o <<"centers", "rotation">>]
             \/ /\ an_call' = Raised("analyze", "StopIteration", an_call.ran)
                /\ an_pc' = "ready"
                /\ UNCHANGED an
    /\ AnFrame

\* "if not self.ctp404: self.initialize_modules()"
AnalyzeInit ==
    /\ an_pc = "init"
    /\ IF an.ctp404 = "none"
       THEN /\ an' = initialize_modules(an)
            /\ an_call' = [an_call EXCEPT !.ran = Append(@, "init")]
       ELSE UNCHANGED <<an, an_call>>
    /\ an_pc' = "scaling"
    /\ AnFrame

\* "if self.ct_point is not None and self.cb_point is not None": the call
\* of calculate_spatial_scaling, which returns or raises ValueError, then
\* the refined centre and the new CTP404Module
AnalyzeScaling ==
    /\ an_pc = "scaling"
    /\ \/ /\ ~an.points
          /\ an_pc' = "ctp404"
          /\ UNCHANGED <<an, an_call>>
       \/ /\ an.points
          /\ \/ /\ an' = [an EXCEPT !.module_centers = "refined",
                                    !.ctp404 = "refined",
                                    !.rot404 = an.rotation_offset,
                                    !.ctp404_analysed = FALSE,
                                    !.scaling_points = TRUE]
                /\ an_pc' = "ctp404"
                /\ an_call' = [an_call EXCEPT !.ran = Append(@, "scaling")]
             \/ /\ an_call' = Raised("analyze", "ValueError: scaling", an_call.ran)
                /\ an_pc' = "ready"
                /\ UNCHANGED an
    /\ AnFrame

\* "results_404 = self.ctp404.analyze()": analyze_contrast sets
\* scaling_points to None; then the x/y scale keys are added
AnalyzeCtp404 ==
    /\ an_pc = "ctp404"
    /\ an' = [an EXCEPT !.scaling_points = FALSE, !.ctp404_analysed = TRUE]
    /\ an_call' = [an_call EXCEPT !.ran = Append(@, "ctp404")]
    /\ an_pc' = "ctp486"
    /\ AnFrame

\* "results_486 = self.ctp486.analyze()"
AnalyzeCtp486 ==
    /\ an_pc = "ctp486"
    /\ an' = [an EXCEPT !.ctp486 = "analysed"]
    /\ an_call' = [an_call EXCEPT !.ran = Append(@, "ctp486")]
    /\ an_pc' = "ctp528"
    /\ AnFrame

\* "results_528 = self.ctp528.analyze()"
AnalyzeCtp528 ==
    /\ an_pc = "ctp528"
    /\ an' = [an EXCEPT !.ctp528 = "analysed"]
    /\ an_call' = [an_call EXCEPT !.ran = Append(@, "ctp528")]
    /\ an_pc' = "compile"
    /\ AnFrame

\* "self.results = {...}; return self.results"
AnalyzeCompile ==
    /\ an_pc = "compile"
    /\ an' = [an EXCEPT !.results = {"ctp404", "ctp486", "ctp528", "metadata"},
                        !.x_scale = an.points]
    /\ an_call' = Returned("analyze", an_call.ran)
    /\ an_pc' = "ready"
    /\ AnFrame

\* "analyzer.ctp404.analyze()" called on the module by the user of the
\* analyzer; None has no attribute analyze
DirectCtp404Analyze ==
    /\ an_pc = "ready"
    /\ IF an.ctp404 = "none"
       THEN /\ an_call' = Raised("ctp404.analyze", "AttributeError", << >>)
            /\ UNCHANGED an
       ELSE /\ an' = [an EXCEPT !.scaling_points = FALSE, !.ctp404_analysed = TRUE]
            /\ an_call' = Returned("ctp404.analyze", << >>)
    /\ UNCHANGED an_pc
    /\ AnFrame

\* "analyzer.ctp486.analyze()"
DirectCtp486Analyze ==
    /\ an_pc = "ready"
    /\ IF an.ctp486 = "none"
       THEN /\ an_call' = Raised("ctp486.analyze", "AttributeError", << >>)
            /\ UNCHANGED an
       ELSE /\ an' = [an EXCEPT !.ctp486 = "analysed"]
            /\ an_call' = Returned("ctp486.analyze", << >>)
    /\ UNCHANGED an_pc
    /\ AnFrame

\* "analyzer.ctp528.analyze()"
DirectCtp528Analyze ==
    /\ an_pc = "ready"
    /\ IF an.ctp528 = "none"
       THEN /\ an_call' = Raised("ctp528.analyze", "AttributeError", << >>)
            /\ UNCHANGED an
       ELSE /\ an' = [an EXCEPT !.ctp528 = "analysed"]
            /\ an_call' = Returned("ctp528.analyze", << >>)
    /\ UNCHANGED an_pc
    /\ AnFrame

\* generate_report: raises without results, and on the missing
\* 'x_scale_cm' key when no scaling was computed
GenerateReport ==
    /\ an_pc = "ready"
    /\ an_call' = IF an.results = {}
                  THEN Raised("generate_report", "ValueError", << >>)
                  ELSE IF ~an.x_scale
                  THEN Raised("generate_report", "KeyError", << >>)
                  ELSE Returned("generate_report", << >>)
    /\ UNCHANGED <<an, an_pc>>
    /\ AnFrame

AnNext ==
    \/ LoadDicomFiles \/ LocateModules \/ FindModuleCenters \/ FindRotation
    \/ InitializeModules \/ GenerateReport
    \/ DirectCtp404Analyze \/ DirectCtp486Analyze \/ DirectCtp528Analyze
    \/ AnalyzeBegin \/ AnalyzeLoad \/ AnalyzeLocate \/ AnalyzeCenters
    \/ AnalyzeInit \/ AnalyzeScaling
    \/ AnalyzeCtp404 \/ AnalyzeCtp486 \/ AnalyzeCtp528 \/ AnalyzeCompile

InitAnalyze == AnInit /\ LocIdle /\ CenIdle /\ RotIdle /\ ScIdle /\ MtfIdle /\ UniIdle /\ ModIdle /\ LisIdle /\ AirIdle /\ ResIdle

SpecAnalyze == InitAnalyze /\ [][AnNext]_vars

\* ------------------------------------------------------------------------
\* _calculate_mtf: initial states and steps
\* ------------------------------------------------------------------------

\* bar heights: below the floor even on a sharp edge, at the floor, between
\* floor and start, above the start
BarHeights == {8, 10, 30, 60}

\* the level under the bars
BaseLevel == 100

\* profiles a sector can show
SectorProfiles ==
    { LinePairProfile(n, amp, shape, BaseLevel) :
        n \in 0 .. MaxBars, amp \in BarHeights, shape \in {"sharp", "ramp"} }

\* the state before "for i in range(len(theta)-1)"
MtfInit ==
    /\ mtf_pc = "sector"
    /\ mtf_i = 0
    /\ mtf_sec = NoSector
    /\ MTF = << >>

\* get_MTF_single_pair up to the while loop: the profile, its derivative
\* and the peaks at h = 50
MtfSector ==
    /\ mtf_pc = "sector"
    /\ mtf_i < NumSectors
    /\ \E f1 \in SectorProfiles :
         \E lmax \in {LocalMaxima(Diff(f1))}, lmin \in {LocalMaxima(Neg(Diff(f1)))} :
           mtf_sec' = [f1 |-> f1, df1 |-> Diff(f1), lmax |-> lmax, lmin |-> lmin,
                       h |-> StartHeight,
                       pmax |-> PeaksOver(lmax, Diff(f1), StartHeight),
                       pmin |-> PeaksOver(lmin, Neg(Diff(f1)), StartHeight),
                       tried |-> {StartHeight}]
    /\ mtf_pc' = "search"
    /\ UNCHANGED <<mtf_i, MTF>>
    /\ MtfFrame

\* one evaluation of the while condition and, when it holds, one pass of
\* the body: "return 0, f1" at the floor, else h -= 1 and the peaks again
MtfSearchStep ==
    /\ mtf_pc = "search"
    /\ IF ~NotEnough(mtf_sec.pmax, mtf_sec.pmin, npeaks[mtf_i + 1])
       THEN /\ mtf_pc' = "measure"
            /\ UNCHANGED <<mtf_i, mtf_sec, MTF>>
       ELSE IF mtf_sec.h <= FloorHeight
       THEN /\ MTF' = Append(MTF, ZeroMTF)
            /\ mtf_i' = mtf_i + 1
            /\ mtf_pc' = "sector"
            /\ UNCHANGED mtf_sec
       ELSE /\ mtf_sec' = [mtf_sec EXCEPT
                             !.h = @ - 1,
                             !.pmax = PeaksOver(mtf_sec.lmax, mtf_sec.df1, mtf_sec.h - 1),
                             !.pmin = PeaksOver(mtf_sec.lmin, Neg(mtf_sec.df1), mtf_sec.h - 1),
                             !.tried = @ \cup {mtf_sec.h - 1}]
            /\ UNCHANGED <<mtf_pc, mtf_i, MTF>>
    /\ MtfFrame

\* the rest of get_MTF_single_pair and MTF.append(mtf_val)
MtfMeasure ==
    /\ mtf_pc = "measure"
    /\ MTF' = Append(MTF, SectorMTF(mtf_sec.f1, SortSet(mtf_sec.pmax \cup mtf_sec.pmin)))
    /\ mtf_i' = mtf_i + 1
    /\ mtf_pc' = "sector"
    /\ UNCHANGED mtf_sec
    /\ MtfFrame

\* the end of the for loop: "return MTF, profiles, ..."
MtfReturn ==
    /\ mtf_pc = "sector"
    /\ mtf_i = NumSectors
    /\ mtf_pc' = "done"
    /\ UNCHANGED <<mtf_i, mtf_sec, MTF>>
    /\ MtfFrame

MtfNext == MtfSector \/ MtfSearchStep \/ MtfMeasure \/ MtfReturn

InitMtf == MtfInit /\ LocIdle /\ CenIdle /\ RotIdle /\ ScIdle /\ AnIdle /\ UniIdle /\ ModIdle /\ LisIdle /\ AirIdle /\ ResIdle

SpecMtf == InitMtf /\ [][MtfNext]_vars

\* ------------------------------------------------------------------------
\* CTP486Module: initial states and steps
\* ------------------------------------------------------------------------

\* Square images of 32 or 128 pixels with 1 or 5 mm pixels, uniform (g = 0)
\* or with a step of 20 at the middle column, and a module centre near the
\* image centre.  On 32 pixels of 1 mm the peripheral boxes leave the image.
UniInputs ==
    { [v |-> v, g |-> g, n |-> n, space |-> space, cx2 |-> n + dx, cy2 |-> n + dy] :
        v \in {-MaxHU, -1, 0, 1, MaxHU}, g \in {0, 20}, n \in {32, 128},
        space \in {1, 5}, dx \in -MaxShift .. MaxShift, dy \in -MaxShift .. MaxShift }

UniInit ==
    /\ ctp486_in \in UniInputs
    /\ ctp486_obj = NewCTP486
    /\ ctp486_calls = 0

\* CTP486Module.prepare_image()
PrepareImage486 ==
    /\ ctp486_calls < MaxCalls
    /\ ctp486_calls' = ctp486_calls + 1
    /\ ctp486_obj' = [ctp486_obj EXCEPT !.averaged_image = AveragedImage(ctp486_in)]
    /\ UNCHANGED ctp486_in
    /\ UniFrame

\* CTP486Module.analyze_uniformity(), prepare_image() included when no
\* averaged image is stored
AnalyzeUniformity ==
    /\ ctp486_calls < MaxCalls
    /\ ctp486_calls' = ctp486_calls + 1
    /\ \E im \in { IF ctp486_obj.averaged_image = NoAveraged
                   THEN AveragedImage(ctp486_in)
                   ELSE ctp486_obj.averaged_image } :
         \E means \in { RegionMeans(im, ctp486_in.cx2, ctp486_in.cy2, ctp486_in.space) } :
            ctp486_obj' = [averaged_image |-> im, results |-> means,
                           uniformity_percent |-> UniformityPercent(means)]
    /\ UNCHANGED ctp486_in
    /\ UniFrame

UniNext == PrepareImage486 \/ AnalyzeUniformity

InitUniformity == UniInit /\ LocIdle /\ CenIdle /\ RotIdle /\ ScIdle /\ AnIdle /\ MtfIdle /\ ModIdle /\ LisIdle /\ AirIdle /\ ResIdle

SpecUniformity == InitUniformity /\ [][UniNext]_vars

\* ------------------------------------------------------------------------
\* The module objects: initial states and steps
\* ------------------------------------------------------------------------

RotationValues == {0, 30}

\* Three modules constructed on one stack, as initialize_modules does, with
\* one rotation offset: the contrast module on any slice, the other two on
\* the second or on the last slice of the stack.  The contrast module is
\* fresh or has had scaling_points set by the analyzer.
ModInit ==
    /\ stack \in [1 .. MaxStack -> SliceKinds]
    /\ stack_orig = stack
    /\ \E i4 \in 0 .. MaxStack - 1, i6 \in {1, MaxStack - 1}, i8 \in {1, MaxStack - 1},
          r \in RotationValues, sp \in {"unset", "pts"} :
         /\ mod404 = [NewCTP404Module EXCEPT !.slice_index = i4, !.rotation_offset = r,
                                             !.scaling_points = sp]
         /\ mod486 = [NewCTP486Module EXCEPT !.slice_index = i6]
         /\ mod528 = [NewCTP528Module EXCEPT !.slice_index = i8, !.rotation_offset = r]
    /\ ret = NoReturns

\* CTP404Module.prepare_image()
M404PrepareImage ==
    /\ \E reads \in { PrepareReads(Len(stack), mod404.slice_index) } :
         IF \E k \in 1 .. 3 : reads[k] = -1
         THEN UNCHANGED <<stack, mod404>>
         ELSE /\ mod404' = [mod404 EXCEPT !.averaged_image = Average3(stack, reads)]
              /\ stack' = PrepareStack(stack, reads)
    /\ UNCHANGED <<stack_orig, mod486, mod528, ret>>
    /\ ModFrame

\* CTP404Module.analyze(): analyze_contrast (with prepare_image when no
\* averaged image is stored), calculate_low_contrast_visibility,
\* measure_slice_thickness
M404Analyze ==
    /\ \E reads \in { PrepareReads(Len(stack), mod404.slice_index) } :
         IF mod404.averaged_image = NoAverage /\ \E k \in 1 .. 3 : reads[k] = -1
         THEN /\ ret' = [ret EXCEPT !.prev404 = ret.last404, !.last404 = RaisedIndexError]
              /\ UNCHANGED <<stack, mod404>>
         ELSE \E im \in { IF mod404.averaged_image = NoAverage
                          THEN Average3(stack, reads) ELSE mod404.averaged_image } :
              \E results \in { StoreResults(mod404.results,
                                            ContrastResults(im, mod404.rotation_offset)) } :
                /\ stack' = (IF mod404.averaged_image = NoAverage
                             THEN PrepareStack(stack, reads) ELSE stack)
                /\ mod404' = [mod404 EXCEPT
                                !.averaged_image = im,
                                !.results = results,
                                !.scaling_points = "None",
                                !.slice_thickness = SliceThickness(stack'[mod404.slice_index + 1])]
                /\ ret' = [ret EXCEPT
                             !.prev404 = ret.last404,
                             !.last404 = [kind |-> "ok",
                                          contrast_rois |-> results,
                                          low_contrast_visibility |-> LowContrastVisibility(results),
                                          slice_thickness_mm |-> mod404'.slice_thickness]]
    /\ UNCHANGED <<stack_orig, mod486, mod528>>
    /\ ModFrame

\* CTP486Module.prepare_image()
M486PrepareImage ==
    /\ \E reads \in { PrepareReads(Len(stack), mod486.slice_index) } :
         IF \E k \in 1 .. 3 : reads[k] = -1
         THEN UNCHANGED <<stack, mod486>>
         ELSE /\ mod486' = [mod486 EXCEPT !.averaged_image = Average3(stack, reads)]
              /\ stack' = PrepareStack(stack, reads)
    /\ UNCHANGED <<stack_orig, mod404, mod528, ret>>
    /\ ModFrame

\* CTP486Module.analyze(): analyze_uniformity with prepare_image when no
\* averaged image is stored
M486Analyze ==
    /\ \E reads \in { PrepareReads(Len(stack), mod486.slice_index) } :
         IF mod486.averaged_image = NoAverage /\ \E k \in 1 .. 3 : reads[k] = -1
         THEN /\ ret' = [ret EXCEPT !.last486 = RaisedIndexError]
              /\ UNCHANGED <<stack, mod486>>
         ELSE \E im \in { IF mod486.averaged_image = NoAverage
                          THEN Average3(stack, reads) ELSE mod486.averaged_image } :
                /\ stack' = (IF mod486.averaged_image = NoAverage
                             THEN PrepareStack(stack, reads) ELSE stack)
                /\ mod486' = [mod486 EXCEPT
                                !.averaged_image = im,
                                !.results = UniformityMeans(im),
                                !.uniformity_percent = UniformityPercent(UniformityMeans(im))]
                /\ ret' = [ret EXCEPT
                             !.last486 = [kind |-> "ok",
                                          regions |-> mod486'.results,
                                          uniformity_percent |-> mod486'.uniformity_percent]]
    /\ UNCHANGED <<stack_orig, mod404, mod528>>
    /\ ModFrame

\* what select_optimal_ctp528_slices does for the resolution module
Select528(stk, z) ==
    select_optimal_ctp528_slices(Len(stk), z,
        [k \in 1 .. 5 |-> IF CandidateReads(Len(stk), z)[k] = -1 THEN 0
                          ELSE TraceMean(stk[CandidateReads(Len(stk), z)[k] + 1])])

\* CTP528Module.select_optimal_slices()
M528SelectOptimalSlices ==
    /\ \E sel \in { Select528(stack, mod528.slice_index) } :
         IF sel.kind = "raise"
         THEN UNCHANGED mod528
         ELSE mod528' = [mod528 EXCEPT !.averaged_image = OptimalAverage(stack, sel)]
    /\ UNCHANGED <<stack, stack_orig, mod404, mod486, ret>>
    /\ ModFrame

\* CTP528Module.analyze(): select_optimal_slices when no averaged image is
\* stored, then _calculate_mtf on the averaged image with the module's
\* rotation offset.  The MTF is a function of that image and that offset and
\* is recorded by them.
M528Analyze ==
    /\ \E sel \in { Select528(stack, mod528.slice_index) } :
         IF mod528.averaged_image = NoAverage /\ sel.kind = "raise"
         THEN /\ ret' = [ret EXCEPT !.last528 = RaisedIndexError]
              /\ UNCHANGED mod528
         ELSE \E im \in { IF mod528.averaged_image = NoAverage
                          THEN OptimalAverage(stack, sel) ELSE mod528.averaged_image } :
                /\ mod528' = [mod528 EXCEPT
                                !.averaged_image = im,
                                !.results = [kind |-> "ok", mtf_of |-> im,
                                             t_offset |-> mod528.rotation_offset]]
                /\ ret' = [ret EXCEPT !.last528 = mod528'.results]
    /\ UNCHANGED <<stack, stack_orig, mod404, mod486>>
    /\ ModFrame

ModNext ==
    \/ M404PrepareImage
    \/ M404Analyze
    \/ M486PrepareImage
    \/ M486Analyze
    \/ M528SelectOptimalSlices
    \/ M528Analyze

InitModules == ModInit /\ LocIdle /\ CenIdle /\ RotIdle /\ ScIdle /\ AnIdle /\ MtfIdle /\ UniIdle /\ LisIdle /\ AirIdle /\ ResIdle

SpecModules == InitModules /\ [][ModNext]_vars

\* ------------------------------------------------------------------------
\* The listener service: initial states and steps
\* ------------------------------------------------------------------------

\* listen_and_analyze.main: a listener with empty directories, the counters
\* of __init__ and the loop of start() running
LisInit ==
    /\ wait_cycles \in 1 .. MaxWait
    /\ new_data = {}
    /\ arrived = 0
    /\ file_count_old = 0
    /\ wait_counter = 0
    /\ service = "running"
    /\ qa_path = {}
    /\ other_path = {}
    /\ analysis_path = {}
    /\ callbacks = {}
    /\ analysed = {}
    /\ transfers = 0
    /\ polls_since_arrival = 0

\* the DICOM receiver writes one more file into new_data_path
FileArrives ==
    /\ service = "running"
    /\ arrived < MaxFiles
    /\ arrived' = arrived + 1
    /\ \E k \in FileKinds :
         new_data' = new_data \cup {[name |-> arrived + 1, kind |-> k.kind, id |-> k.id]}
    /\ polls_since_arrival' = 0
    /\ UNCHANGED <<wait_cycles, file_count_old, wait_counter, service, qa_path,
                   other_path, analysis_path, callbacks, analysed, transfers>>
    /\ LisFrame

\* One pass of the loop of start(): _check_and_process() with, when the wait
\* is over, _transfer_and_flag and _transfer_group for every group.  The
\* timestamp of a transfer is its number; the callback raises for the groups
\* in raising.
Poll ==
    /\ service = "running"
    /\ polls_since_arrival' = Min({polls_since_arrival + 1, MaxWait + 1})
    /\ \E total_files \in { Cardinality(new_data) } :
         IF total_files = 0
         THEN UNCHANGED <<new_data, file_count_old, wait_counter, qa_path, other_path,
                          analysis_path, callbacks, transfers>>
         ELSE \E c \in { Counters(total_files, file_count_old, wait_counter) } :
              IF c.wait_counter >= wait_cycles
              THEN \E timestamp \in { transfers + 1 } :
                   \E raising \in SUBSET { g.name : g \in FlagFiles(new_data, timestamp) } :
                     /\ qa_path' = qa_path \cup GroupDirs(new_data, timestamp, TRUE)
                     /\ other_path' = other_path \cup GroupDirs(new_data, timestamp, FALSE)
                     /\ analysis_path' = analysis_path \cup FlagFiles(new_data, timestamp)
                     /\ callbacks' = callbacks \cup
                          { [dir |-> g.name, raised |-> g.name \in raising] :
                              g \in FlagFiles(new_data, timestamp) }
                     /\ new_data' = {}
                     /\ transfers' = transfers + 1
                     /\ file_count_old' = 0
                     /\ wait_counter' = 0
              ELSE /\ file_count_old' = c.file_count_old
                   /\ wait_counter' = c.wait_counter
                   /\ UNCHANGED <<new_data, qa_path, other_path, analysis_path,
                                  callbacks, transfers>>
    /\ UNCHANGED <<wait_cycles, arrived, service, analysed>>
    /\ LisFrame

\* KeyboardInterrupt in main: listener.stop(), then
\* processor.check_and_process(), which analyses the flagged directories and
\* removes the flag of each analysis that does not raise
Interrupt ==
    /\ service = "running"
    /\ service' = "stopped"
    /\ \E done \in SUBSET analysis_path :
         /\ analysed' = analysed \cup { flag.content : flag \in done }
         /\ analysis_path' = analysis_path \ done
    /\ UNCHANGED <<wait_cycles, new_data, arrived, file_count_old, wait_counter,
                   qa_path, other_path, callbacks, transfers, polls_since_arrival>>
    /\ LisFrame

LisNext == FileArrives \/ Poll \/ Interrupt

InitListener == LisInit /\ LocIdle /\ CenIdle /\ RotIdle /\ ScIdle /\ AnIdle /\ MtfIdle /\ UniIdle /\ ModIdle /\ AirIdle /\ ResIdle

SpecListener == InitListener /\ [][LisNext]_vars

\* the loop of start() keeps polling
SpecListenerLive == SpecListener /\ WF_vars(Poll)

\* a file is taken out of new_data_path from outside the service (deleted
\* or moved away by a user of the shared directory)
FileRemoved ==
    /\ service = "running"
    /\ \E f \in new_data : new_data' = new_data \ {f}
    /\ UNCHANGED <<wait_cycles, arrived, file_count_old, wait_counter, service, qa_path,
                   other_path, analysis_path, callbacks, analysed, transfers,
                   polls_since_arrival>>
    /\ LisFrame

LisEnvNext == LisNext \/ FileRemoved

\* the service in a directory whose file count can also fall, with the
\* polling loop running
SpecListenerEnv == InitListener /\ [][LisEnvNext]_vars /\ WF_vars(Poll)

\* ------------------------------------------------------------------------
\* find_air_roi_centers: initial states and the call
\* ------------------------------------------------------------------------

\* peak indices of one derivative profile: every choice of up to three of
\* the indices 30, 37 and 45
AirPeakSets == SUBSET {30, 37, 45}

\* A call of find_air_roi_centers with the nominal points of a centred
\* phantom; the peaks are those find_peaks returns for the four profiles.
AirInit ==
    /\ air_pc = "call"
    /\ \E ppm \in {1, 2}, pht \in AirPeakSets, pvt \in AirPeakSets,
          phb \in AirPeakSets, pvb \in AirPeakSets :
         air = [NoAirCall EXCEPT
                  !.sz = RotImg,
                  !.ct = NominalTop([x |-> RotImg, y |-> RotImg], RingR2(ppm)),
                  !.cb = NominalBottom([x |-> RotImg, y |-> RotImg], RingR2(ppm)),
                  !.peaks_ht = pht, !.peaks_vt = pvt,
                  !.peaks_hb = phb, !.peaks_vb = pvb]

\* the body of find_air_roi_centers up to its return; interpn raises for a
\* sample outside the image
FindAirRoiCenters ==
    /\ air_pc = "call"
    /\ IF ~ProfilesInGrid(air.ct, air.cb, air.sz)
       THEN /\ air_pc' = "raised"
            /\ UNCHANGED air
       ELSE /\ air_pc' = "done"
            /\ air' = [air EXCEPT
                         !.ct_new = ShiftPoint(air.ct, air.peaks_ht, air.peaks_vt),
                         !.cb_new = ShiftPoint(air.cb, air.peaks_hb, air.peaks_vb)]
    /\ AirFrame

AirNext == FindAirRoiCenters

InitAirRoi == AirInit /\ LocIdle /\ CenIdle /\ RotIdle /\ ScIdle /\ AnIdle /\ MtfIdle /\ UniIdle /\ ModIdle /\ LisIdle /\ ResIdle

SpecAirRoi == InitAirRoi /\ [][AirNext]_vars

\* ------------------------------------------------------------------------
\* CTP528Module.analyze: initial states and the step after _calculate_mtf
\* ------------------------------------------------------------------------

\* The state after _calculate_mtf returned the array of modulations: each
\* sector resolved with some modulation or unresolved (0).
ResInit ==
    /\ res_pc = "mtf"
    /\ res_mtf \in [1 .. MaxPairs -> 0 .. MaxMod]
    /\ res = NoResolution

\* "Normalize MTF", "Calculate MTF at specific percentages", self.results
\* and the return
ResNormalize ==
    /\ res_pc = "mtf"
    /\ res' = [nMTF |-> NormalizedMTF(res_mtf),
               fMTF |-> InterpolatedMTF(NormalizedMTF(res_mtf))]
    /\ res_pc' = "done"
    /\ UNCHANGED res_mtf
    /\ ResFrame

ResNext == ResNormalize

InitResolution == ResInit /\ LocIdle /\ CenIdle /\ RotIdle /\ ScIdle /\ AnIdle /\ MtfIdle /\ UniIdle /\ ModIdle /\ LisIdle /\ AirIdle

SpecResolution == InitResolution /\ [][ResNext]_vars

\* ------------------------------------------------------------------------
\* Module location: initial states and steps
\* ------------------------------------------------------------------------

\* stacks that reach past the default expected slice
LongLens == (ExpectedSliceDefault + 1) .. (ExpectedSliceDefault + MaxLen)

\* Short stacks of 1..MaxLen slices with any set of slices carrying the
\* line-pair signature, and long stacks with at most one such slice; an
\* analyzer constructed for either phantom model.
LocInit ==
    /\ \/ /\ dicom_len \in 1..MaxLen
          /\ lp_sig \in SUBSET (0 .. dicom_len - 1)
       \/ /\ dicom_len \in LongLens
          /\ lp_sig \in {{}} \cup { {k} : k \in 0 .. dicom_len - 1 }
    /\ probe \in Probes
    /\ catphan_model \in Models
    /\ loc_pc = "init"
    /\ fs = NoFind
    /\ so = NoSelect
    /\ hdr = NoHeader
    /\ slice_indices = NoIndices

\* CatPhanGeometry.find_slice_ctp528(dicom_set, expected_slice) called on its
\* own with an explicit expected_slice.
DirectFindSlice ==
    /\ loc_pc = "init"
    /\ \E e \in 0..MaxExpected :
          fs' = find_slice_ctp528(dicom_len, lp_sig, probe, e)
    /\ loc_pc' = "direct_done"
    /\ UNCHANGED <<dicom_len, lp_sig, probe, catphan_model, so, hdr, slice_indices>>
    /\ LocFrame

\* locate_modules -> locate_all_modules, first statement: find_slice_ctp528
\* with the default expected_slice.
LocateFind ==
    /\ loc_pc = "init"
    /\ fs' = find_slice_ctp528(dicom_len, lp_sig, probe, ExpectedSliceDefault)
    /\ loc_pc' = IF fs'.kind = "raise" THEN "raised" ELSE "found"
    /\ UNCHANGED <<dicom_len, lp_sig, probe, catphan_model, so, hdr, slice_indices>>
    /\ LocFrame

Means == [1..5 -> 0..MaxMean]

\* locate_all_modules, second statement: select_optimal_ctp528_slices on the
\* index just found.  The five profile means are read from the stack here.
LocateSelect ==
    /\ loc_pc = "found"
    /\ \E means \in Means :
          so' = select_optimal_ctp528_slices(dicom_len, fs.idx, means)
    /\ loc_pc' = IF so'.kind = "raise" THEN "raised" ELSE "selected"
    /\ UNCHANGED <<dicom_len, lp_sig, probe, catphan_model, fs, hdr, slice_indices>>
    /\ LocFrame

\* locate_all_modules, the rest: SliceThickness and the two SliceLocations
\* are read, the indices derived, and locate_modules stores the dictionary.
\* dicom_set[ctp528_index + 1] raises IndexError past the end of the stack.
LocateDerive ==
    /\ loc_pc = "selected"
    /\ \E thick2 \in 1..MaxThick2, delta \in {-1, 0, 1} :
          /\ hdr' = [thick2 |-> thick2, delta |-> delta]
          /\ IF PyIndex(fs.idx + 1, dicom_len) = -1
             THEN /\ loc_pc' = "raised"
                  /\ UNCHANGED slice_indices
             ELSE /\ loc_pc' = "done"
                  /\ \E i404 \in DerivedIndex(fs.idx, so, thick2, delta, d_CTP404),
                        i486 \in DerivedIndex(fs.idx, so, thick2, delta, d_CTP486) :
                        slice_indices' = ModuleIndices(fs.idx, i404, i486)
    /\ UNCHANGED <<dicom_len, lp_sig, probe, catphan_model, fs, so>>
    /\ LocFrame

LocNext == DirectFindSlice \/ LocateFind \/ LocateSelect \/ LocateDerive

InitLocate == LocInit /\ CenIdle /\ RotIdle /\ ScIdle /\ AnIdle /\ MtfIdle /\ UniIdle /\ ModIdle /\ LisIdle /\ AirIdle /\ ResIdle

SpecLocate == InitLocate /\ [][LocNext]_vars

\* ------------------------------------------------------------------------
\* Properties of module location
\* ------------------------------------------------------------------------

\* r = trunc(num / den) for den > 0, stated without division
IsTrunc(r, num, den) ==
    IF num >= 0 THEN r * den <= num /\ num < (r + 1) * den
    ELSE (r - 1) * den < num /\ num <= r * den

\* r is what int() can return for num / den: its truncation, or, where the
\* rounded mean makes a whole-number sum fall short, the neighbour towards 0
IsPyInt(r, num, den, rounded) ==
    \/ IsTrunc(r, num, den)
    \/ /\ rounded /\ num % den = 0 /\ num # 0
       /\ IsTrunc(r, num - (IF num > 0 THEN 1 ELSE -1), den)

\* the expected-candidate set {e, e+1, e-1, e+2, e-2} of a finished call
CandidateSet == LET e == ZTmp(fs.expected, dicom_len)
                IN  {e, e + 1, e - 1, e + 2, e - 2}

\* position of slice c in the search order e, e+1, e-1, e+2, e-2
OrderPos(c) == LET e == ZTmp(fs.expected, dicom_len)
               IN  CASE c = e     -> 1
                     [] c = e + 1 -> 2
                     [] c = e - 1 -> 3
                     [] c = e + 2 -> 4
                     [] OTHER     -> 5

\* C1 (as claimed): when no slice of the stack carries the line-pair
\* signature, locating the modules fails: locate_modules returns and stores
\* no module indices, so the run cannot go on to centre finding.
C1_NotFoundIsFatal ==
    (probe = "ok" /\ lp_sig = {}) => (~slice_indices.set /\ loc_pc # "done")

C4_ModelPreset ==
    slice_indices.set =>
        /\ slice_indices.ctp404 \in
             DerivedIndex(fs.idx, so, hdr.thick2, hdr.delta,
                          OffsetPreset(catphan_model).ctp404)
        /\ slice_indices.ctp486 \in
             DerivedIndex(fs.idx, so, hdr.thick2, hdr.delta,
                          OffsetPreset(catphan_model).ctp486)

\* C5 (as claimed): the averaged candidates are {m-1, m, m+1} when the
\* maximum-mean candidate m is interior, and m with its single in-window
\* neighbour when m is the first or the last of the five.
C5_AveragedWindow ==
    (so.kind = "ret") =>
        so.marked = ( {so.tmp - 1, so.tmp, so.tmp + 1} \cap (0..4) )

\* ------------------------------------------------------------------------
\* Properties of find_center
\* ------------------------------------------------------------------------

\* the central row meets the disc and so does the central column
DiscOnAxes ==
    /\ Abs(RoundHalf(image.rows) - image.cy) <= image.r
    /\ Abs(RoundHalf(image.cols) - image.cx) <= image.r

\* the disc lies wholly inside the image
DiscInside ==
    /\ image.cx - image.r >= 0 /\ image.cx + image.r <= image.cols - 1
    /\ image.cy - image.r >= 0 /\ image.cy + image.r <= image.rows - 1

\* columns of the central row, rows of the central column, above thr
AboveX(thr) == { x \in 0 .. image.cols - 1 : Pixel(image, x, RoundHalf(image.rows)) > thr }

AboveY(thr) == { y \in 0 .. image.rows - 1 : Pixel(image, RoundHalf(image.cols), y) > thr }

\* C6 (as claimed): when the central row or column has no pixel above the
\* given threshold the search is retried exactly once, with a threshold
\* lower than the one first used; if that fails too find_center raises and
\* returns no centre.
C6_RetryLower ==
    /\ (fc_pc \in {"done", "raised"}
          /\ (AboveX(fc.first_thr) = {} \/ AboveY(fc.first_thr) = {}))
         => (fc.tries = 2 /\ fc.used_thr < fc.first_thr)
    /\ fc_pc = "raised" => (fc.tries = 2 /\ ~fc.found)
    /\ fc.tries <= 2

C8_Far(t, b, t0, b0) ==
    \/ Abs(t.x - t0.x) > 60
    \/ Abs(t.y - t0.y) > 60
    \/ Abs(b.x - b0.x) > 60
    \/ Abs(b.y - b0.y) > 60

\* C8: find_rotation performs at most 5 refinement iterations, and when in
\* some iteration a coordinate of the top or bottom point moves by more
\* than 30 pixels relative to its value before that iteration, refinement
\* stops there and the returned points are exactly the original nominal
\* estimates, so that the reported rotation is 0.
C8_BoundedRollback ==
    /\ [](rot.i <= 5)
    /\ [][(rot'.i = rot.i + 1 /\ C8_Far(rot'.ct_new, rot'.cb_new, rot.ct, rot.cb))
            => /\ rot_pc' = "calc"
               /\ rot'.ct = NominalTop(rot_in.center, RingR2(rot_in.ppm))
               /\ rot'.cb = NominalBottom(rot_in.center, RingR2(rot_in.ppm))
               /\ rot'.ct_old = rot.ct /\ rot'.cb_old = rot.cb]_vars
    /\ [][(rot_pc = "calc" /\ rot_pc' = "done"
             /\ C8_Far(rot.ct_new, rot.cb_new, rot.ct_old, rot.cb_old))
            => /\ rot_ret'.returned
               /\ rot_ret'.ct = NominalTop(rot_in.center, RingR2(rot_in.ppm))
               /\ rot_ret'.cb = NominalBottom(rot_in.center, RingR2(rot_in.ppm))
               /\ rot_ret'.tan.num = 0 /\ rot_ret'.tan.den # 0]_vars

\* C8 witness: the third iteration moves only the bottom point too far,
\* after two iterations that moved the top point; the nominal points are
\* returned.
C8_Witness ==
    /\ rot_pc = "done" /\ rot.i = 3 /\ rot.exit = "rollback"
    /\ rot.ct_old # rot.ct_original
    /\ rot.ct_new = rot.ct_old
    /\ Abs(rot.cb_new.y - rot.cb_old.y) > 60
    /\ rot_ret.ct = rot.ct_original /\ rot_ret.tan.num = 0

\* ------------------------------------------------------------------------
\* Properties of calculate_spatial_scaling
\* ------------------------------------------------------------------------

\* C9: when at the last threshold of the cascade (5) either direction has
\* fewer than 2 derivative peaks, calculate_spatial_scaling raises an error
\* carrying the two peak counts and the ranges of the two derivatives,
\* returns no scale values and leaves scaling_results as it was.
C9_InsufficientPeaksRaise ==
    (sc_pc \in {"done", "raised"}
       /\ (Len(PeaksAt(sc_df.df1, 5)) < 2 \/ Len(PeaksAt(sc_df.df2, 5)) < 2))
      => /\ sc_pc = "raised"
         /\ sc.err.raised
         /\ sc.err.n1 = Len(PeaksAt(sc_df.df1, 5))
         /\ sc.err.n2 = Len(PeaksAt(sc_df.df2, 5))
         /\ sc.err.df1 = [min |-> Min(Range(sc_df.df1)), max |-> Max(Range(sc_df.df1))]
         /\ sc.err.df2 = [min |-> Min(Range(sc_df.df2)), max |-> Max(Range(sc_df.df2))]
         /\ ~sc.returned
         /\ scaling_results = sc.prior
         /\ scaling_points # "pts"

\* C9 witness: the first direction has two peaks from threshold 40 on, the
\* second has a single faint one, and the module holds an earlier result.
C9_Witness ==
    /\ sc_pc = "raised"
    /\ Len(PeaksAt(sc_df.df1, 40)) >= 2
    /\ Len(PeaksAt(sc_df.df2, 5)) = 1
    /\ Len(PeaksAt(sc_df.df2, 10)) = 0
    /\ sc.prior.set

\* ------------------------------------------------------------------------
\* Properties of CatPhanAnalyzer.analyze
\* ------------------------------------------------------------------------

\* C10 (as claimed): when spatial scaling fails for lack of derivative peaks
\* during analyze(), the uniformity (CTP486) and resolution (CTP528)
\* analyses still run to completion and their results are delivered to the
\* caller.
C10_ScalingFailureConfined ==
    (an_pc = "ready" /\ an_call.op = "analyze" /\ an_call.exc = "ValueError: scaling")
      => /\ {"ctp486", "ctp528"} \subseteq Range(an_call.ran)
         /\ {"ctp486", "ctp528"} \subseteq an.results

\* the stages of analyze() in the order of their data dependencies
StageOrder == <<"load", "locate", "centers", "rotation", "init", "scaling",
                "ctp404", "ctp486", "ctp528">>

StagePos(stage) == CHOOSE k \in 1 .. Len(StageOrder) : StageOrder[k] = stage

\* the output of a calibration stage is stored in the analyzer
OutputPresent(stage) ==
    CASE stage = "locate"   -> an.slice_indices
      [] stage = "centers"  -> an.module_centers # "none"
      [] stage = "rotation" -> an.points
      [] stage = "scaling"  -> an.module_centers = "refined"

\* C15 (as claimed): in an execution of analyze() that reaches the module
\* analyses, whatever public steps were called before it, the stages that
\* ran did so in the order location, centres, rotation, scaling, module
\* analyses, and a stage that did not run was skipped with its output
\* already present.
C15_StagesRespectDependencies ==
    (an_call.op = "analyze" /\ "ctp404" \in Range(an_call.ran)) =>
        /\ \A i, j \in 1 .. Len(an_call.ran) :
              i < j => StagePos(an_call.ran[i]) < StagePos(an_call.ran[j])
        /\ \A stage \in {"locate", "centers", "rotation", "scaling"} :
              stage \in Range(an_call.ran) \/ OutputPresent(stage)

\* C16 (as claimed): when analyze() returns after any sequence of the public
\* operations, the rotation offset held by the contrast module and the one
\* held by the resolution module equal each other and the analyzer's
\* rotation_offset.
C16_SharedRotation ==
    (an_pc = "ready" /\ an_call.op = "analyze" /\ an_call.exc = "none") =>
        /\ an.rot404 = an.rot528
        /\ an.rot528 = an.rotation_offset

\* C17 (as claimed): after load_dicom_files, locate_modules,
\* find_module_centers, find_rotation, initialize_modules and the three
\* analyze() calls made directly on the modules, generate_report() succeeds.
C17_StepByStepReport ==
    (/\ an_call.op = "generate_report"
     /\ an.dicom_set /\ an.slice_indices /\ an.module_centers = "coarse" /\ an.points
     /\ an.rot404 = an.rotation_offset /\ an.rot528 = an.rotation_offset
     /\ an.ctp404_analysed /\ an.ctp486 = "analysed" /\ an.ctp528 = "analysed"
     /\ an.results = {}) =>
        an_call.exc = "none"

\* ------------------------------------------------------------------------
\* Properties of _calculate_mtf
\* ------------------------------------------------------------------------

\* thresholds in lo..50 at which the derivative of the current profile has
\* the expected number of peaks of both polarities
C11_Good(lo) ==
    LET up == LocalMaxima(mtf_sec.df1)
        dn == LocalMaxima(Neg(mtf_sec.df1))
    IN  { t \in lo .. 50 :
            /\ Cardinality({ m \in up : mtf_sec.df1[m + 1] >= t }) >= npeaks[mtf_i + 1][2]
            /\ Cardinality({ m \in dn : -mtf_sec.df1[m + 1] >= t }) >= npeaks[mtf_i + 1][2] }

\* steps left at most: 100 per sector to come, within a sector the
\* thresholds still to try
C11_Rank ==
    IF mtf_pc = "done" THEN 0
    ELSE (NumSectors - mtf_i) * 100
           + (CASE mtf_pc = "sector" -> 60
                [] mtf_pc = "search" -> mtf_sec.h + 2
                [] OTHER -> 1)

\* C11: the threshold search of every sector terminates: it starts at 50,
\* goes down by 1 per step, never uses a threshold below 10, and stops at
\* the highest threshold at which the positive and the negative derivative
\* peaks both reach the expected count; when no threshold in 10..50 does,
\* the sector gets modulation 0, no error is raised and the remaining
\* sectors are still analysed.
C11_ThresholdSearch ==
    /\ [](mtf_pc \in {"search", "measure"} =>
            /\ mtf_sec.tried = mtf_sec.h .. 50
            /\ mtf_sec.h >= 10
            /\ C11_Good(mtf_sec.h + 1) = {})
    /\ [](mtf_pc = "measure" => mtf_sec.h = Max(C11_Good(10)))
    /\ [][(mtf_pc = "search" /\ mtf_pc' = "sector") =>
            /\ C11_Good(10) = {}
            /\ MTF' = Append(MTF, [num |-> 0, den |-> 1])
            /\ mtf_i' = mtf_i + 1]_vars
    /\ [][(mtf_pc = "search" /\ mtf_pc' = "search") => mtf_sec'.h = mtf_sec.h - 1]_vars
    /\ [](mtf_pc = "done" => Len(MTF) = NumSectors)
    /\ [][C11_Rank' < C11_Rank /\ C11_Rank' >= 0]_vars
    /\ [](/\ mtf_pc \in {"sector", "search", "measure", "done"}
          /\ mtf_i <= NumSectors
          /\ mtf_pc \in {"search", "measure"} => mtf_i < NumSectors
          /\ mtf_pc = "done" => mtf_i = NumSectors)

\* C11 witness: the first sector was not resolved and got modulation 0, the
\* second one was resolved at a threshold strictly between 10 and 50, and
\* the analysis returned.
C11_Witness ==
    /\ mtf_pc = "done"
    /\ Len(MTF) >= 2
    /\ MTF[1] = ZeroMTF
    /\ MTF[2].num > 0
    /\ mtf_sec.h \in 11 .. 49

\* ------------------------------------------------------------------------
\* C12  analyze_uniformity on a perfectly uniform image of any constant
\*      value v, positive, zero or negative, stores a uniformity of 0.0 %
\*      (all five boxes holding pixels of the image).
\* ------------------------------------------------------------------------
C12_UniformIsZero ==
    (/\ ctp486_in.g = 0
     /\ ctp486_obj.uniformity_percent # NoPercent
     /\ \A k \in DOMAIN ctp486_obj.results : ctp486_obj.results[k].cnt > 0) =>
        /\ ctp486_obj.uniformity_percent.kind = "number"
        /\ ctp486_obj.uniformity_percent.num = 0

\* ------------------------------------------------------------------------
\* C13  Two runs of CTP404Module.analyze() on the same module and stack
\*      return the same (label, mean, std) tuples and the same low contrast
\*      visibility (and end alike when they raise), whatever was called on
\*      the modules in between; the stack is as it was handed over.
\* ------------------------------------------------------------------------
C13_ContrastIdempotent ==
    ret.prev404 # NoReturn =>
        /\ ret.last404.kind = ret.prev404.kind
        /\ ret.last404.kind = "ok" =>
             /\ ret.last404.contrast_rois = ret.prev404.contrast_rois
             /\ ret.last404.low_contrast_visibility = ret.prev404.low_contrast_visibility
        /\ stack = stack_orig

C13_Witness ==
    /\ ret.prev404.kind = "ok"
    /\ ret.last404.kind = "ok"
    /\ Len(ret.last404.contrast_rois) = 9
    /\ ret.last404.low_contrast_visibility.kind = "number"
    /\ mod404.scaling_points = "None"
    /\ ret.last486.kind = "ok"

\* what each analyze() returns when it is the only call made on the stack
\* as it was handed over
Alone404 ==
    LET reads == PrepareReads(Len(stack_orig), mod404.slice_index)
    IN  IF \E k \in 1 .. 3 : reads[k] = -1 THEN RaisedIndexError
        ELSE LET results == ContrastResults(Average3(stack_orig, reads), mod404.rotation_offset)
             IN  [kind |-> "ok", contrast_rois |-> results,
                  low_contrast_visibility |-> LowContrastVisibility(results),
                  slice_thickness_mm |-> SliceThickness(stack_orig[mod404.slice_index + 1])]

Alone486 ==
    LET reads == PrepareReads(Len(stack_orig), mod486.slice_index)
    IN  IF \E k \in 1 .. 3 : reads[k] = -1 THEN RaisedIndexError
        ELSE LET means == UniformityMeans(Average3(stack_orig, reads))
             IN  [kind |-> "ok", regions |-> means,
                  uniformity_percent |-> UniformityPercent(means)]

Alone528 ==
    LET sel == Select528(stack_orig, mod528.slice_index)
    IN  IF sel.kind = "raise" THEN RaisedIndexError
        ELSE [kind |-> "ok", mtf_of |-> OptimalAverage(stack_orig, sel),
              t_offset |-> mod528.rotation_offset]

\* ------------------------------------------------------------------------
\* C14  The three module analyses are order-insensitive: whatever was called
\*      on the modules before and in whatever order, each analyze() returns
\*      what it returns when run alone, the stack is never modified, and a
\*      call on one module leaves the fields of the other two as they were.
\* ------------------------------------------------------------------------
C14_OrderInsensitive ==
    /\ [](/\ stack = stack_orig
          /\ ret.last404 # NoReturn => ret.last404 = Alone404
          /\ ret.last486 # NoReturn => ret.last486 = Alone486
          /\ ret.last528 # NoReturn => ret.last528 = Alone528)
    /\ [][/\ mod404' # mod404 => (mod486' = mod486 /\ mod528' = mod528)
          /\ mod486' # mod486 => (mod404' = mod404 /\ mod528' = mod528)
          /\ mod528' # mod528 => (mod404' = mod404 /\ mod486' = mod486)]_vars

C14_Witness ==
    /\ ret.last404.kind = "ok"
    /\ ret.last486.kind = "ok"
    /\ ret.last528.kind = "ok"
    /\ mod404.slice_index = mod486.slice_index
    /\ mod486.slice_index = mod528.slice_index
    /\ ret.last486.uniformity_percent.kind = "number"
    /\ ret.last486.uniformity_percent.num # 0
    /\ \E k \in 1 .. MaxStack - 1 : stack[k] # stack[k + 1]


\* C18: a transfer starts only at a poll that finds files and only when
\* wait_cycles polls have been made since the last file arrived (the poll
\* that sees the arrival is the first of them), and it leaves file_count_old
\* and wait_counter at 0; a poll that finds more files than file_count_old
\* restarts the wait at 1 (with wait_cycles = 1 it transfers at once)
C18_TransferAfterWait ==
    /\ [][transfers' > transfers =>
            /\ Cardinality(new_data) > 0
            /\ polls_since_arrival' >= wait_cycles
            /\ file_count_old' = 0
            /\ wait_counter' = 0]_vars
    /\ [][(arrived' = arrived /\ service' = "running"
            /\ Cardinality(new_data) > file_count_old) =>
            IF wait_cycles <= 1
            THEN transfers' = transfers + 1
            ELSE /\ transfers' = transfers
                 /\ wait_counter' = 1
                 /\ file_count_old' = Cardinality(new_data)]_vars

\* a transfer was just made by a listener that waits for more than one poll
C18_Witness ==
    /\ wait_cycles >= 2
    /\ transfers >= 1
    /\ polls_since_arrival = wait_cycles
    /\ new_data = {}
    /\ file_count_old = 0
    /\ wait_counter = 0

\* the upper-case form of the letters of the keywords
C20_Upper ==
    [c \in {"m", "l", "c", "i", "s", "o", "p", "r", "f", "a", "t"} |->
        CASE c = "m" -> "M" [] c = "l" -> "L" [] c = "c" -> "C" [] c = "i" -> "I"
          [] c = "s" -> "S" [] c = "o" -> "O" [] c = "p" -> "P" [] c = "r" -> "R"
          [] c = "f" -> "F" [] c = "a" -> "A" [] c = "t" -> "T"]

\* the identifier of the file holds one of the keywords in some mix of cases
C20_HasKeyword(file) ==
    \E keyword \in Keywords :
      \E i \in 1 .. Len(PatientIdOf(file)) - Len(keyword) + 1 :
        \A j \in 1 .. Len(keyword) :
          PatientIdOf(file)[i + j - 1] \in {keyword[j], C20_Upper[keyword[j]]}

\* C20: the groups whose patient ID holds 'mlc', 'iso', 'prof' or 'cat' in
\* any case are under the QA directory, all others under the other
\* directory; a flag is written and the callback called for exactly the QA
\* groups; the content of a flag is the name of the group's directory; and
\* a transfer moves every file, whether or not a callback raised
C20_QaGroupsFlagged ==
    /\ [](\A d \in qa_path : d.files # {} /\ \A f \in d.files : C20_HasKeyword(f))
    /\ [](\A d \in other_path : d.files # {} /\ \A f \in d.files : ~C20_HasKeyword(f))
    /\ []({ c.dir : c \in callbacks } = { d.name : d \in qa_path })
    /\ [](service = "running" =>
            { flag.name : flag \in analysis_path } = { d.name : d \in qa_path })
    /\ [](\A flag \in analysis_path :
            flag.content = flag.name /\ \E d \in qa_path : d.name = flag.content)
    /\ [][transfers' > transfers =>
            /\ new_data' = {}
            /\ \A f \in new_data :
                 \E d \in (qa_path' \ qa_path) \cup (other_path' \ other_path) :
                    f \in d.files]_vars

\* one transfer moved a QA group whose callback raised and a second group
C20_Witness ==
    \E c \in callbacks :
      /\ c.raised
      /\ \E d \in qa_path : d.name = c.dir
      /\ \E d \in qa_path \cup other_path : d.name[2] = c.dir[2] /\ d.name # c.dir

\* some flag file in analysis_path names a directory not analysed so far
FlaggedNotAnalysed == \E flag \in analysis_path : flag.content \notin analysed

\* C19: while the service keeps running, a dataset flagged for analysis is
\* eventually analysed by the DICOMProcessor; the only runs excused are
\* those in which the service is stopped
C19_FlaggedEventuallyAnalysed ==
    FlaggedNotAnalysed ~> (~FlaggedNotAnalysed \/ service = "stopped")


\* ------------------------------------------------------------------------
\* Properties of the threshold cascade of calculate_spatial_scaling
\* ------------------------------------------------------------------------

\* the thresholds at which both directions have at least 2 peaks
C21_Sufficient ==
    { h \in {40, 30, 20, 10, 5} :
        Len(PeaksAt(sc_df.df1, h)) >= 2 /\ Len(PeaksAt(sc_df.df2, h)) >= 2 }

\* the position of a threshold in the order 40, 30, 20, 10, 5
C21_Pos(h) == CASE h = 40 -> 1 [] h = 30 -> 2 [] h = 20 -> 3 [] h = 10 -> 4 [] h = 5 -> 5

\* C21: the thresholds are tried in the order 40, 30, 20, 10, 5; the search
\* stops at the highest threshold at which both directions have at least 2
\* peaks, the scale is computed from the peaks found there, and no lower
\* threshold is evaluated
C21_FirstSufficientThreshold ==
    /\ [](sc_pc \in {"check", "done", "raised"} /\ C21_Sufficient # {} =>
            /\ sc.k = C21_Pos(Max(C21_Sufficient))
            /\ sc.peaks1 = PeaksAt(sc_df.df1, Max(C21_Sufficient))
            /\ sc.peaks2 = PeaksAt(sc_df.df2, Max(C21_Sufficient)))
    /\ [](sc_pc = "done" =>
            /\ C21_Sufficient # {}
            /\ scaling_results.x_scale = ScaleSteps(PeaksAt(sc_df.df1, Max(C21_Sufficient)))
            /\ scaling_results.y_scale = ScaleSteps(PeaksAt(sc_df.df2, Max(C21_Sufficient))))
    /\ [](sc_pc = "cascade" =>
            \A h \in C21_Sufficient : C21_Pos(h) >= sc.k)
    /\ [][sc_pc = "cascade" /\ sc.k' # sc.k =>
            /\ sc.k' = sc.k + 1
            /\ \A h \in C21_Sufficient : C21_Pos(h) > sc.k]_vars
    /\ [][sc_pc # "cascade" /\ sc_pc # "idle" => sc.k' = sc.k /\ sc.peaks1' = sc.peaks1
            /\ sc.peaks2' = sc.peaks2]_vars

\* the search passed 40 and 30 and stopped at 20 though 10 and 5 would do
\* as well
C21_Witness ==
    /\ sc_pc = "done"
    /\ C21_Sufficient = {20, 10, 5}
    /\ sc.k = 3
    /\ scaling_results.set


\* C24 (as claimed): when calculate_spatial_scaling returns, both scale
\* values are strictly positive, whatever the accepted number of peaks per
\* direction
C24_ScalesPositive ==
    sc_pc = "done" => scaling_results.x_scale > 0 /\ scaling_results.y_scale > 0


\* ------------------------------------------------------------------------
\* Properties of find_air_roi_centers
\* ------------------------------------------------------------------------

\* n times the doubled distance from the middle sample of the profile to
\* the mean position of the n peaks
C22_MeanShift(peaks) == 2 * SumSet(peaks) - Cardinality(peaks) * NumSamples

\* C22 (as claimed): the new centre of an air ROI along a profile is the
\* mean position of the peaks detected on that profile, relative to the
\* middle sample, for one, two or more peaks
C22_MidpointOfPeaks ==
    air_pc = "done" =>
      /\ air.peaks_ht # {} =>
           Cardinality(air.peaks_ht) * (air.ct_new.x - air.ct.x) = C22_MeanShift(air.peaks_ht)
      /\ air.peaks_vt # {} =>
           Cardinality(air.peaks_vt) * (air.ct_new.y - air.ct.y) = C22_MeanShift(air.peaks_vt)
      /\ air.peaks_hb # {} =>
           Cardinality(air.peaks_hb) * (air.cb_new.x - air.cb.x) = C22_MeanShift(air.peaks_hb)
      /\ air.peaks_vb # {} =>
           Cardinality(air.peaks_vb) * (air.cb_new.y - air.cb.y) = C22_MeanShift(air.peaks_vb)


\* C25 (as claimed): when analyze() has returned after performing the
\* spatial scaling, the contrast module's scaling_points are the points
\* calculate_spatial_scaling returned
C25_ScalingPointsKept ==
    (an_pc = "ready" /\ an_call.op = "analyze" /\ an_call.exc = "none"
       /\ "scaling" \in Range(an_call.ran))
      => an.scaling_points

\* C26 (as claimed): after any preparation steps and an analyze() that
\* returns normally, results['ctp404'] holds x_scale_cm and y_scale_cm, and
\* generate_report() never fails on a missing result field
C26_ReportFieldsPresent ==
    /\ (an_pc = "ready" /\ an_call.op = "analyze" /\ an_call.exc = "none") => an.x_scale
    /\ ~(an_call.op = "generate_report" /\ an_call.exc = "KeyError")


\* ------------------------------------------------------------------------
\* Properties of the slice reads
\* ------------------------------------------------------------------------

\* average_slices around idx raises no IndexError
C27_ReadsSucceed(idx) ==
    \A k \in 1..3 : AverageSlicesReads(dicom_len, idx)[k] # -1

\* the three reads around idx are the slices idx-1, idx, idx+1 themselves
C27_ReadsInRange(idx) ==
    \A k \in 1..3 : AverageSlicesReads(dicom_len, idx)[k] = idx + k - 2

\* C27 (as claimed): no slice is read through a negative index that wraps
\* around: the five candidates around the resolution index and the three
\* slices around each derived index are the slices of those indices, or the
\* run has stopped with an error
C27_NoWrappedRead ==
    /\ so.kind = "ret" => \A k \in 1..5 : so.reads[k] = fs.idx + k - 3
    /\ (loc_pc = "done" /\ C27_ReadsSucceed(slice_indices.ctp404))
         => C27_ReadsInRange(slice_indices.ctp404)
    /\ (loc_pc = "done" /\ C27_ReadsSucceed(slice_indices.ctp404)
          /\ C27_ReadsSucceed(slice_indices.ctp486))
         => C27_ReadsInRange(slice_indices.ctp486)


\* ------------------------------------------------------------------------
\* Properties of CTP528Module.analyze
\* ------------------------------------------------------------------------

\* the fraction a is at most the fraction b
C23_Leq(a, b) ==
    /\ a.kind = "number" /\ b.kind = "number"
    /\ a.num * b.den <= b.num * a.den

\* C23 (as claimed): the normalized MTF values handed reversed to the
\* interpolation do not decrease, for every vector of sector modulations,
\* and the reported frequencies satisfy mtf_80 <= mtf_50 <= mtf_30 <= mtf_10;
\* stated for the vectors with at least one resolved sector
C23_MonotoneAbscissa ==
    (res_pc = "done" /\ \E i \in DOMAIN res_mtf : res_mtf[i] > 0) =>
      /\ \A i \in 1 .. Len(res.nMTF) - 1 :
           C23_Leq(res.nMTF[i + 1], res.nMTF[i])
      /\ \A k \in 1 .. 3 : C23_Leq(res.fMTF[k], res.fMTF[k + 1])

\* C28 (as claimed): analyze() returns a normalized MTF array whose entries
\* are all numbers not above 1 and whose maximum is exactly 1, also when
\* every sector is unresolved
C28_NormalizedDefined ==
    res_pc = "done" =>
      /\ \A i \in DOMAIN res.nMTF :
           res.nMTF[i].kind = "number" /\ res.nMTF[i].num <= res.nMTF[i].den
      /\ \E i \in DOMAIN res.nMTF : res.nMTF[i].num = res.nMTF[i].den

\* C29 (as claimed): once new_data_path holds files and its content no
\* longer changes, the polling listener starts a transfer, whatever counts
\* the earlier polls saw; a transfer empties new_data_path
C29_QuiescentTransfers ==
    (new_data # {}) ~> (new_data = {} \/ service = "stopped")

====
